---------------------------- MODULE Spec2Model ----------------------------
(***************************************************************************)
(* State-machine model of the 3D model / shadow rendering code:            *)
(*                                                                         *)
(*   src/3d-style/render/shadow_renderer.js   ShadowRenderer               *)
(*   src/unnamed/part_000                     drawModels and helpers       *)
(*                                                                         *)
(* Numbers.  Distances handled by updateShadowParameters are held in       *)
(* units of 1/200, so that height / 50.0, cameraToCenterDistance * 1.5,    *)
(* split * 3.0 and far * 0.75 are all exact integers.                      *)
(*                                                                         *)
(* Matrices.  A Mat4 of drawModels is held by the 2 x 2 block that acts on *)
(* the z and w coordinates, <<m10, m14, m11, m15>> in gl-matrix's column   *)
(* major numbering; a mesh centroid is a point of the z axis.  A projected *)
(* depth is the exact fraction <<numerator, denominator>>.                 *)
(*                                                                         *)
(* Opacity is held in percent (model-opacity 1 is 100).                    *)
(***************************************************************************)
EXTENDS Integers, Sequences, FiniteSets, TLC

VARIABLES
    \* ---- terrain, tiles and painter seen by the instanced path of drawModels
    terrain,                \* painter.terrain
    buckets,                \* tile.getBucket(layer) of every coord in coords
    lastUpdate,             \* history: per bucket, its last updateModelBucketsElevation
    painterEnv,             \* transform.projection.name, style.modelManager, shadowRenderer
    \* ---- ShadowRenderer fields (shadow_renderer.js 45-60)
    _enabled,               \* this._enabled
    _shadowLayerCount,      \* this._shadowLayerCount
    _cascades,              \* this._cascades : Seq of ShadowCascade
    _uniformValues,         \* this._uniformValues
    \* ---- painter / context / style seen by the ShadowRenderer
    isWebGL2,               \* painter.context.isWebGL2
    _shadowMapDebug,        \* painter._shadowMapDebug
    currentShadowCascade,   \* painter.currentShadowCascade
    styleOrder,             \* painter.style.order, resolved to the layers
    \* ---- GPU objects (graphics-API collaborator)
    gpuCreated,             \* how many framebuffers / textures were ever created
    gpuDestroyed,           \* ids of destroyed framebuffers / textures
    \* ---- observation of the calls made so far
    glLog,                  \* graphics-API calls issued by the last operation
    thrown,                 \* exception the last operation ended with, or "none"
    lastOp,                 \* the last operation and its arguments
    hadEnabledUpdate,       \* an updateShadowParameters call has ended enabled
    destroyCalls,           \* number of destroy() calls so far
    \* ---- what drawModels reads (part_000)
    renderPass,             \* painter.renderPass
    modelOpacity,           \* layer.paint.get('model-opacity'), percent
    modelSource,            \* sourceCache.getSource(): loaded(), type, getModels()
    projMatrix,             \* painter.transform.projMatrix
    \* ---- the module's table of projections (shadow_renderer.js 546-555)
    projections             \* projections[name], the objects getProjection extends

shadowVars == <<_enabled, _shadowLayerCount, _cascades, _uniformValues,
                isWebGL2, _shadowMapDebug, currentShadowCascade,
                styleOrder, gpuCreated, gpuDestroyed, glLog, thrown, lastOp,
                hadEnabledUpdate, destroyCalls>>

drawVars == <<renderPass, modelOpacity, modelSource, projMatrix>>

instancedVars == <<terrain, buckets, lastUpdate, painterEnv>>

projectionVars == <<projections>>

vars == <<shadowVars, drawVars, instancedVars, projectionVars>>

-----------------------------------------------------------------------------
(* Bounds of the model *)

\* longest style.order
MaxLayers == 2
\* most destroy() calls in one behaviour
MaxDestroys == 1
\* most meshes of one model source
MaxMeshes == 3
MaxInstances == 2

(* Program constants *)

cascadeCount == 2
shadowMapResolution == 2048
MaxPolarCoordinate == 75

-----------------------------------------------------------------------------
(* Inputs *)

\* A style layer as the shadow renderer sees it: its type, hasShadowPass(),
\* isHidden(zoom) at the frame's zoom, and the number of tile coordinates its
\* source cache has in sourceCoords.
LayerKinds ==
    { [type |-> "model",          shadowPass |-> TRUE,  hidden |-> FALSE, coords |-> 0],
      [type |-> "fill-extrusion", shadowPass |-> TRUE,  hidden |-> FALSE, coords |-> 1],
      [type |-> "fill-extrusion", shadowPass |-> TRUE,  hidden |-> FALSE, coords |-> 0],
      [type |-> "fill-extrusion", shadowPass |-> TRUE,  hidden |-> TRUE,  coords |-> 1],
      [type |-> "fill",           shadowPass |-> FALSE, hidden |-> FALSE, coords |-> 1] }

SeqUpTo(S, n) == UNION { [1..k -> S] : k \in 0..n }

StyleOrders == SeqUpTo(LayerKinds, MaxLayers)

\* directionalLight argument of updateShadowParameters: null, a light without
\* properties, or a light with its 'cast-shadows', 'shadow-intensity' and the
\* polar angle (degrees) of its 'direction'.
NullLight == [kind |-> "null", castShadows |-> FALSE, shadowIntensity |-> 0, polar |-> 0]
LightWithoutProperties ==
    [kind |-> "noprops", castShadows |-> FALSE, shadowIntensity |-> 0, polar |-> 0]
Lights ==
    { NullLight, LightWithoutProperties,
      [kind |-> "light", castShadows |-> TRUE,  shadowIntensity |-> 1, polar |-> 30],
      [kind |-> "light", castShadows |-> TRUE,  shadowIntensity |-> 1, polar |-> 90],
      [kind |-> "light", castShadows |-> TRUE,  shadowIntensity |-> 0, polar |-> 30],
      [kind |-> "light", castShadows |-> FALSE, shadowIntensity |-> 1, polar |-> 30] }

\* transform.elevation: absent, or the exaggeration and the visible DEM tiles,
\* each with its min/max tree root (or no dem data).
NoElevation == [present |-> FALSE, exaggeration |-> 0, visibleDemTiles |-> <<>>]
ElevationWithoutDem ==
    [present |-> TRUE, exaggeration |-> 1,
     visibleDemTiles |-> << [dem |-> FALSE, min |-> 0, max |-> 0] >>]
ElevationWithDem ==
    [present |-> TRUE, exaggeration |-> 2,
     visibleDemTiles |-> << [dem |-> TRUE, min |-> 10, max |-> 40],
                            [dem |-> TRUE, min |-> -5, max |-> 30] >>]

\* transform argument of updateShadowParameters: height and
\* cameraToCenterDistance (whole units) and elevation
Transforms ==
    { [height |-> 50,  cameraToCenterDistance |-> 75, elevation |-> NoElevation],
      [height |-> 100, cameraToCenterDistance |-> 75, elevation |-> ElevationWithDem],
      [height |-> 100, cameraToCenterDistance |-> 1,  elevation |-> ElevationWithoutDem] }

-----------------------------------------------------------------------------
(* Helpers *)

Min(a, b) == IF a < b THEN a ELSE b
Max(a, b) == IF a > b THEN a ELSE b

\* util clamp(n, min, max)
clamp(n, lo, hi) == Min(hi, Max(lo, n))

\* A graphics-API call, as logged
GlCall(op, a, b) == [op |-> op, a |-> a, b |-> b]

NoOp == [name |-> "none"]

\* An argument the operation returned without reading
NotRead == [read |-> FALSE]

\* What a drawShadowPass remembers of the operation it follows: its name and,
\* of an updateShadowParameters, the light's kind and 'cast-shadows'
Summary(op) ==
    IF op.name = "updateShadowParameters"
    THEN [name |-> op.name, kind |-> op.directionalLight.kind,
          castShadows |-> op.directionalLight.castShadows]
    ELSE [name |-> op.name]


-----------------------------------------------------------------------------
(* ShadowRenderer (shadow_renderer.js) *)

\* layer.hasShadowPass() && !layer.isHidden(transform.zoom) ? 1 : 0, summed
\* over painter.style.order by reduce (lines 87-91)
RECURSIVE ShadowLayerCount(_)
ShadowLayerCount(order) ==
    IF order = <<>> THEN 0
    ELSE LET layer == order[Len(order)]
         IN  ShadowLayerCount(SubSeq(order, 1, Len(order) - 1))
               + (IF layer.shadowPass /\ ~layer.hidden THEN 1 ELSE 0)

\* line 77: the first early return is NOT taken
ContextAndLightUsable(webgl2, directionalLight) ==
    ~(~webgl2 \/ directionalLight.kind = "null" \/ directionalLight.kind = "noprops")

\* line 83: the second early return is NOT taken
LightCastsShadows(directionalLight) ==
    ~(directionalLight.castShadows # TRUE \/ directionalLight.shadowIntensity <= 0)

\* this._shadowLayerCount when updateShadowParameters returns (lines 75-91)
ShadowLayerCountAfterUpdate(webgl2, directionalLight, order) ==
    IF ContextAndLightUsable(webgl2, directionalLight) /\ LightCastsShadows(directionalLight)
    THEN ShadowLayerCount(order)
    ELSE 0

\* (mutant) line 74 missing: an early return leaves this._enabled as it was
EnabledKeptOnEarlyReturn(webgl2, directionalLight, order) ==
    IF ContextAndLightUsable(webgl2, directionalLight) /\ LightCastsShadows(directionalLight)
    THEN ShadowLayerCountAfterUpdate(webgl2, directionalLight, order) > 0
    ELSE _enabled

\* this._enabled when updateShadowParameters returns (lines 74-97)
EnabledAfterUpdate(webgl2, directionalLight, order) ==
    IF ContextAndLightUsable(webgl2, directionalLight) /\ LightCastsShadows(directionalLight)
    THEN ShadowLayerCountAfterUpdate(webgl2, directionalLight, order) > 0
    ELSE FALSE

\* (mutant) line 103 missing: every enabled call allocates
AllocatesOnEveryCall(cascades) == TRUE

\* line 103: cascades are allocated only when there are none
NeedsCascadeAllocation(cascades) == Len(cascades) = 0

\* mat4.create(): the identity, before any light matrix was computed
IdentityMatrix == [kind |-> "identity"]

\* lines 104-118: the cascadeCount cascades pushed by the allocation loop.
\* A framebuffer / texture is named by its creation number; colorAttachment
\* says whether the framebuffer was given a colour texture (lines 113-116).
NewCascades(created, useColor) ==
    [i \in 1..cascadeCount |->
        [framebuffer |-> created.framebuffers + i,
         colorAttachment |-> useColor,
         texture     |-> created.depthTextures + i,
         matrix      |-> IdentityMatrix,
         far         |-> 0,
         frustum     |-> [ofMatrix |-> IdentityMatrix]]]

CreatedAfterAllocation(created, useColor) ==
    [framebuffers  |-> created.framebuffers + cascadeCount,
     depthTextures |-> created.depthTextures + cascadeCount,
     colorTextures |-> created.colorTextures + (IF useColor THEN cascadeCount ELSE 0)]

\* the graphics-API calls of the allocation loop, in order
RECURSIVE AllocationCalls(_, _, _)
AllocationCalls(created, useColor, i) ==
    IF i > cascadeCount THEN <<>>
    ELSE <<GlCall("createFramebuffer", created.framebuffers + i, useColor),
           GlCall("createDepthTexture", created.depthTextures + i, created.framebuffers + i)>>
         \o (IF useColor
             THEN <<GlCall("createColorTexture", created.colorTextures + i, created.framebuffers + i)>>
             ELSE <<>>)
         \o AllocationCalls(created, useColor, i + 1)

\* Math.cos of an angle in degrees, in thousandths, for the polar angles the
\* lights take
CosThousandths(polar) ==
    CASE polar = 0   -> 1000
      [] polar = 30  -> 866
      [] polar = 60  -> 500
      [] polar = 75  -> 259
      [] polar = 76  -> 242
      [] polar = 90  -> 0
      [] polar = 120 -> -500
      [] polar = 180 -> -1000

\* sphericalPositionToCartesian([radial, azimuthal, polar]) of a unit vector:
\* the polar angle kept, and z = cos(polar)
sphericalPositionToCartesian(polar) ==
    [polar |-> polar, z |-> CosThousandths(polar)]

\* (mutant) line 342 missing: the polar angle is not limited
shadowDirectionUnclamped(directionalLight) ==
    sphericalPositionToCartesian(directionalLight.polar)

\* shadowDirectionFromProperties (lines 333-348): the light direction with its
\* polar angle clamped to [0, 75] degrees, as a cartesian position again
shadowDirectionFromProperties(directionalLight) ==
    sphericalPositionToCartesian(clamp(directionalLight.polar, 0, MaxPolarCoordinate))

\* lines 122-134: vertical terrain range from the visible DEM tiles
RECURSIVE DemRange(_, _)
DemRange(tiles, range) ==
    IF tiles = <<>> THEN range
    ELSE LET tile == Head(tiles)
         IN  DemRange(Tail(tiles),
                      IF tile.dem
                      THEN <<Min(range[1], tile.min), Max(range[2], tile.max)>>
                      ELSE range)

VerticalRange(elevation) ==
    IF ~elevation.present THEN 0
    ELSE LET range == DemRange(elevation.visibleDemTiles, <<10000, -10000>>)
         IN  IF range[1] # 10000
             THEN (range[2] - range[1]) * elevation.exaggeration
             ELSE 0

\* line 136, in 1/200 units: transform.cameraToCenterDistance * 1.5
CascadeSplitDist(cameraToCenterDistance) == cameraToCenterDistance * 300
\* line 137: cascadeSplitDist * 3.0
ShadowCutoutDist(cascadeSplitDist) == cascadeSplitDist * 3

\* (mutant) line 151 missing: every cascade starts at the camera near plane
CascadeNearOfCamera(cascadeIndex, height, cascadeSplitDist) == height * 4

\* lines 142-154: near and far of cascade cascadeIndex (0-based), 1/200 units
CascadeNear(cascadeIndex, height, cascadeSplitDist) ==
    IF cascadeCount = 1 THEN height * 4
    ELSE IF cascadeIndex = 0 THEN height * 4
    ELSE cascadeSplitDist

CascadeFar(cascadeIndex, cascadeSplitDist, shadowCutoutDist) ==
    IF cascadeCount = 1 THEN shadowCutoutDist
    ELSE IF cascadeIndex = 0 THEN cascadeSplitDist
    ELSE shadowCutoutDist

\* createLightMatrix (lines 379-497) is a function of its arguments only; the
\* matrix is held as the arguments that determine it.
\* line 474: the far plane of the orthographic projection,
\* (radiusPx + verticalRange * pixelsPerMeter) / shadowDirection[2], as a
\* quotient <<numerator, denominator>>; a division by 0 gives no finite number
OrthographicFar(radiusPx, verticalRangePx, shadowDirection) ==
    IF shadowDirection.z = 0
    THEN [finite |-> FALSE, value |-> <<0, 1>>]
    ELSE [finite |-> TRUE,
          value |-> <<(radiusPx + verticalRangePx) * 1000, shadowDirection.z>>]

\* createLightMatrix as updateShadowParameters calls it; the radius of the
\* cascade's sphere is taken as its far distance (line 404 with k = 1) at a
\* world size and pixels per metre of 1
createLightMatrix(shadowDirection, near, far, resolution, verticalRange) ==
    [kind |-> "light", shadowDirection |-> shadowDirection, near |-> near,
     far |-> far, resolution |-> resolution, verticalRange |-> verticalRange,
     orthographicFar |-> OrthographicFar(far, verticalRange, shadowDirection)]

\* lines 139-161: every cascade gets its matrix, frustum and far
CascadesAfterUpdate(cascades, directionalLight, height, cameraToCenterDistance, elevation) ==
    LET split  == CascadeSplitDist(cameraToCenterDistance)
        cutout == ShadowCutoutDist(split)
        dir    == shadowDirectionFromProperties(directionalLight)
        vr     == VerticalRange(elevation)
    IN  [i \in 1..Len(cascades) |->
            IF i > cascadeCount THEN cascades[i]
            ELSE LET near == CascadeNear(i - 1, height, split)
                     far  == CascadeFar(i - 1, split, cutout)
                     m    == createLightMatrix(dir, near, far, shadowMapResolution, vr)
                 IN  [cascades[i] EXCEPT !.matrix = m,
                                         !.frustum = [ofMatrix |-> m],
                                         !.far = far]]

\* defaultShadowUniformValues(), then lines 162-167
DefaultShadowUniformValues ==
    [u_fade_range |-> <<0, 0>>, u_shadow_intensity |-> 0,
     u_shadow_direction |-> [polar |-> 0, z |-> 1000], set |-> FALSE,
     u_light_matrix_0 |-> IdentityMatrix, u_light_matrix_1 |-> IdentityMatrix]

UniformValuesAfterUpdate(uniforms, cascades, directionalLight) ==
    [uniforms EXCEPT
        !.u_fade_range = <<(cascades[2].far * 3) \div 4, cascades[2].far>>,
        !.u_shadow_intensity = directionalLight.shadowIntensity,
        !.u_shadow_direction = shadowDirectionFromProperties(directionalLight),
        !.set = TRUE]

\* updateShadowParameters(transform, directionalLight), lines 71-168
UpdateShadowParameters(transform, directionalLight) ==
    LET enabled  == EnabledAfterUpdate(isWebGL2, directionalLight, styleOrder)
        allocate == enabled /\ NeedsCascadeAllocation(_cascades)
        cascades == IF allocate THEN _cascades \o NewCascades(gpuCreated, _shadowMapDebug) ELSE _cascades
    IN  /\ _enabled' = enabled
        /\ _shadowLayerCount' =
              ShadowLayerCountAfterUpdate(isWebGL2, directionalLight, styleOrder)
        /\ gpuCreated' = IF allocate
                         THEN CreatedAfterAllocation(gpuCreated, _shadowMapDebug)
                         ELSE gpuCreated
        /\ glLog' = IF allocate
                    THEN AllocationCalls(gpuCreated, _shadowMapDebug, 1)
                    ELSE <<>>
        /\ _cascades' = IF enabled
                        THEN CascadesAfterUpdate(cascades, directionalLight,
                                                 transform.height,
                                                 transform.cameraToCenterDistance,
                                                 transform.elevation)
                        ELSE _cascades
        /\ _uniformValues' = IF enabled
                             THEN UniformValuesAfterUpdate(_uniformValues, _cascades', directionalLight)
                             ELSE _uniformValues
        /\ thrown' = "none"
        /\ lastOp' = [name |-> "updateShadowParameters",
                      directionalLight |-> directionalLight,
                      transform |-> IF enabled THEN transform ELSE NotRead,
                      enabledBefore |-> _enabled,
                      hadEnabledUpdate |-> hadEnabledUpdate]
        /\ hadEnabledUpdate' = (hadEnabledUpdate \/ enabled)
        /\ UNCHANGED <<isWebGL2, _shadowMapDebug, currentShadowCascade,
                       styleOrder, gpuDestroyed, destroyCalls>>
        /\ UNCHANGED <<projectionVars, drawVars, instancedVars>>

\* set enabled(enabled), lines 174-177
SetEnabled(enabled) ==
    /\ _enabled' = enabled
    /\ glLog' = <<>>
    /\ thrown' = "none"
    /\ lastOp' = [name |-> "set enabled", enabled |-> enabled]
    /\ UNCHANGED <<_shadowLayerCount, _cascades, _uniformValues, isWebGL2,
                   _shadowMapDebug, currentShadowCascade, styleOrder,
                   gpuCreated, gpuDestroyed, hadEnabledUpdate, destroyCalls>>
    /\ UNCHANGED <<projectionVars, drawVars, instancedVars>>

\* destroy(), lines 62-69
RECURSIVE DestroyCalls(_)
DestroyCalls(cascades) ==
    IF cascades = <<>> THEN <<>>
    ELSE <<GlCall("texture.destroy", Head(cascades).texture, 0),
           GlCall("framebuffer.destroy", Head(cascades).framebuffer, 0)>>
         \o DestroyCalls(Tail(cascades))

Destroy ==
    /\ destroyCalls < MaxDestroys
    /\ destroyCalls' = destroyCalls + 1
    /\ gpuDestroyed' =
         [framebuffers |-> gpuDestroyed.framebuffers
                             \cup {_cascades[i].framebuffer : i \in 1..Len(_cascades)},
          textures     |-> gpuDestroyed.textures
                             \cup {_cascades[i].texture : i \in 1..Len(_cascades)}]
    /\ glLog' = DestroyCalls(_cascades)
    /\ _cascades' = <<>>
    /\ thrown' = "none"
    /\ lastOp' = [name |-> "destroy"]
    /\ UNCHANGED <<_enabled, _shadowLayerCount, _uniformValues, isWebGL2,
                   _shadowMapDebug, currentShadowCascade, styleOrder,
                   gpuCreated, hadEnabledUpdate>>
    /\ UNCHANGED <<projectionVars, drawVars, instancedVars>>

\* (mutant) line 180 missing: drawShadowPass never returns at once
DrawShadowPassNeverReturnsEarly(enabled) == FALSE

\* line 180: drawShadowPass returns at once
DrawShadowPassReturnsEarly(enabled) == ~enabled

\* (mutant) line 203 without its exception for layers of type 'model'
ShadowPassSkipsLayerWithoutCoords(layer) ==
    \/ ~layer.shadowPass \/ layer.hidden
    \/ ~(layer.coords > 0)

\* line 199 and 203: the layer is skipped
ShadowPassSkipsLayer(layer) ==
    \/ ~layer.shadowPass \/ layer.hidden
    \/ (layer.type # "model" /\ ~(layer.coords > 0))

\* lines 197-206: painter.renderLayer calls of one cascade, in style order
RECURSIVE RenderLayerCalls(_, _, _)
RenderLayerCalls(order, i, cascade) ==
    IF i > Len(order) THEN <<>>
    ELSE (IF ShadowPassSkipsLayer(order[i]) THEN <<>>
          ELSE <<GlCall("renderLayer", i, cascade)>>)
         \o RenderLayerCalls(order, i + 1, cascade)

\* (mutant) line 195 giving the clear a colour in debug visualization only
ClearsColorInDebugOnly(debug) == debug

\* line 195: context.clear({color: Color.white, depth: 1}) is given a colour
ClearsColor(debug) == TRUE

\* lines 191-207: the calls of cascades cascade..cascadeCount-1, ending at the
\* first cascade that does not exist (this._cascades[cascade] is undefined and
\* reading its framebuffer throws). A clear is logged with whether it was
\* given a colour and whether it was given a depth.
RECURSIVE CascadePassCalls(_, _, _, _)
CascadePassCalls(cascades, order, cascade, debug) ==
    IF cascade >= cascadeCount THEN <<>>
    ELSE IF cascade + 1 > Len(cascades) THEN <<GlCall("throw", "TypeError", cascade)>>
    ELSE <<GlCall("bindFramebuffer", cascades[cascade + 1].framebuffer, cascade),
           GlCall("clear", ClearsColor(debug), TRUE)>>
         \o RenderLayerCalls(order, 1, cascade)
         \o CascadePassCalls(cascades, order, cascade + 1, debug)

\* drawShadowPass(style, sourceCoords), lines 179-210, called by the painter
\* with painter.renderPass = 'shadow' (asserted at line 187)
DrawShadowPass ==
    LET calls == IF DrawShadowPassReturnsEarly(_enabled) THEN <<>>
                 ELSE <<GlCall("viewport", shadowMapResolution, shadowMapResolution)>>
                      \o CascadePassCalls(_cascades, styleOrder, 0, _shadowMapDebug)
        failed == calls # <<>> /\ calls[Len(calls)].op = "throw"
    IN  /\ glLog' = calls
        /\ thrown' = IF failed THEN calls[Len(calls)].a ELSE "none"
        /\ currentShadowCascade' =
             IF calls = <<>> \/ (failed /\ Len(calls) = 1) THEN currentShadowCascade
             ELSE IF failed THEN calls[Len(calls)].b
             ELSE 0
        /\ lastOp' = [name |-> "drawShadowPass", after |-> Summary(lastOp)]
        /\ UNCHANGED <<_enabled, _shadowLayerCount, _cascades, _uniformValues,
                       isWebGL2, _shadowMapDebug, styleOrder,
                       gpuCreated, gpuDestroyed, hadEnabledUpdate, destroyCalls>>
        /\ UNCHANGED <<projectionVars, drawVars, instancedVars>>

-----------------------------------------------------------------------------
(* drawModels (part_000): inputs *)

\* mesh.material.alphaMode and mesh.centroid; the centroid of a mesh that is
\* not blended is never read
Centroids == {-1, 0, 2, 5, 8}
MeshKinds ==
    { [alphaMode |-> "OPAQUE", centroid |-> 0],
      [alphaMode |-> "MASK", centroid |-> 0] }
    \cup [alphaMode : {"BLEND"}, centroid : Centroids]

\* mat4.identity, a translation along z, a mirror of z, a scaling of z, and a
\* perspective projection (w' = z + 4)
IdentityMat == <<1, 0, 0, 1>>
TranslateZ(t) == <<1, t, 0, 1>>
MirrorZ == <<-1, 0, 0, 1>>
ScaleZ(k) == <<k, 0, 0, 1>>
PerspectiveMat == <<1, 1, 1, 4>>

\* Node trees and model matrices of a model source, before its meshes are
\* put in: a node is its matrix and the indices of its children in nodes.
SceneShapes ==
    { \* one model, one node
      [nodes  |-> << [matrix |-> IdentityMat, children |-> <<>>] >>,
       models |-> << [matrix |-> IdentityMat, nodes |-> <<1>>] >>,
       projMatrix |-> IdentityMat],
      \* two models, the second mirrored
      [nodes  |-> << [matrix |-> IdentityMat, children |-> <<>>],
                     [matrix |-> TranslateZ(1), children |-> <<>>] >>,
       models |-> << [matrix |-> IdentityMat, nodes |-> <<1>>],
                     [matrix |-> MirrorZ, nodes |-> <<2>>] >>,
       projMatrix |-> IdentityMat],
      \* one model, a chain root - child - grandchild, seen in perspective
      [nodes  |-> << [matrix |-> TranslateZ(1), children |-> <<2>>],
                     [matrix |-> TranslateZ(-4), children |-> <<3>>],
                     [matrix |-> ScaleZ(2), children |-> <<>>] >>,
       models |-> << [matrix |-> ScaleZ(-1), nodes |-> <<1>>] >>,
       projMatrix |-> PerspectiveMat],
      \* one mirrored model with two root nodes, the first with a child
      [nodes  |-> << [matrix |-> TranslateZ(2), children |-> <<3>>],
                     [matrix |-> ScaleZ(3), children |-> <<>>],
                     [matrix |-> TranslateZ(-1), children |-> <<>>] >>,
       models |-> << [matrix |-> MirrorZ, nodes |-> <<1, 2>>] >>,
       projMatrix |-> IdentityMat] }

\* node.meshes of node n: of the meshes, given in the order of their ids,
\* those dealt to node n (mesh k goes to node ((k - 1) mod #nodes) + 1)
MeshesOfNode(meshes, n, nodeCount) ==
    LET ids == {k \in 1..Len(meshes) : ((k - 1) % nodeCount) + 1 = n}
        RECURSIVE Pick(_)
        Pick(k) == IF k > Len(meshes) THEN <<>>
                   ELSE (IF k \in ids
                         THEN <<[id |-> k, alphaMode |-> meshes[k].alphaMode,
                                 centroid |-> meshes[k].centroid]>>
                         ELSE <<>>) \o Pick(k + 1)
    IN  Pick(1)

\* the model source: loaded(), type, getModels() and the node arena
ModelSource(loaded, type, shape, meshes) ==
    [loaded |-> loaded,
     type   |-> type,
     models |-> shape.models,
     nodes  |-> [n \in 1..Len(shape.nodes) |->
                    [matrix   |-> shape.nodes[n].matrix,
                     children |-> shape.nodes[n].children,
                     meshes   |-> MeshesOfNode(meshes, n, Len(shape.nodes))]]]

\* the example of the draw-order scenario: 2 opaque meshes and 3 blended
\* meshes at depths 5, 2, 8
ExampleMeshes ==
    << [alphaMode |-> "OPAQUE", centroid |-> 0],
       [alphaMode |-> "BLEND", centroid |-> 5],
       [alphaMode |-> "BLEND", centroid |-> 2],
       [alphaMode |-> "OPAQUE", centroid |-> 0],
       [alphaMode |-> "BLEND", centroid |-> 8] >>

\* painter.renderPass, model-opacity (percent), source.loaded(), source.type
DrawContexts ==
    { [renderPass |-> "translucent", opacity |-> 100, loaded |-> TRUE,  type |-> "model"],
      [renderPass |-> "translucent", opacity |-> 50,  loaded |-> TRUE,  type |-> "model"],
      [renderPass |-> "translucent", opacity |-> 0,   loaded |-> TRUE,  type |-> "model"],
      [renderPass |-> "translucent", opacity |-> 50,  loaded |-> FALSE, type |-> "model"],
      [renderPass |-> "shadow",      opacity |-> 50,  loaded |-> TRUE,  type |-> "model"] }

-----------------------------------------------------------------------------
(* drawModels (part_000): gl-matrix and Array.prototype.sort *)

RECURSIVE GCD(_, _)
GCD(a, b) == IF b = 0 THEN a ELSE GCD(b, a % b)

Abs(x) == IF x < 0 THEN -x ELSE x

\* the fraction n / d (d # 0) in lowest terms with a positive denominator
Fraction(n, d) ==
    LET g == GCD(Abs(n), Abs(d))
        sgn == IF d < 0 THEN -1 ELSE 1
    IN  <<sgn * (n \div g), sgn * (d \div g)>>

\* mat4.multiply(out, a, b): out = a * b
MatMul(a, b) ==
    << a[1] * b[1] + a[2] * b[3], a[1] * b[2] + a[2] * b[4],
       a[3] * b[1] + a[4] * b[3], a[3] * b[2] + a[4] * b[4] >>

\* vec3.transformMat4(out, [0, 0, z], m)[2]: w = m11 z + m15, w = w || 1.0,
\* out[2] = (m10 z + m14) / w
TransformMat4Z(z, m) ==
    LET w0 == m[3] * z + m[4]
        w  == IF w0 = 0 THEN 1 ELSE w0
    IN  Fraction(m[1] * z + m[2], w)

\* the sign of x - y for fractions x and y
FractionMinus(x, y) == x[1] * y[2] - y[1] * x[2]

\* (mutant) lines 279-281 comparing a.depth - b.depth: nearest first
DepthComparatorAscending(a, b) == FractionMinus(a.depth, b.depth)

\* lines 279-281: comparefn of the sort of the transparent meshes
depthComparator(a, b) == FractionMinus(b.depth, a.depth)

\* transparentMeshes.sort(comparefn), line 279: Array.prototype.sort is
\* stable; an element moves in front of the elements e with comparefn(e, x) > 0
RECURSIVE SortInsert(_, _)
SortInsert(sorted, x) ==
    IF sorted = <<>> THEN <<x>>
    ELSE LET last == sorted[Len(sorted)]
         IN  IF depthComparator(last, x) > 0
             THEN Append(SortInsert(SubSeq(sorted, 1, Len(sorted) - 1), x), last)
             ELSE Append(sorted, x)

RECURSIVE ArraySort(_)
ArraySort(array) ==
    IF array = <<>> THEN <<>>
    ELSE SortInsert(ArraySort(SubSeq(array, 1, Len(array) - 1)), array[Len(array)])

-----------------------------------------------------------------------------
(* drawModels (part_000): prepareMeshes, drawMesh, drawModels *)

\* a sequence of calls that ended by throwing
Failed(calls) == calls # <<>> /\ calls[Len(calls)].op = "throw"

\* calls, then more unless calls threw
Then(calls, more) == IF Failed(calls) THEN calls ELSE calls \o more

\* (mutant) line 220 reading centroidPos[2] < 0.0
KeepsTransparentMeshBehind(depth) == FractionMinus(depth, <<0, 1>>) < 0

\* line 220: a blended mesh is kept (not filtered out)
KeepsTransparentMesh(depth) == FractionMinus(depth, <<0, 1>>) > 0

\* lines 211-224: the record of one mesh, added to the opaque or to the
\* transparent meshes, or to neither
AddMesh(acc, mesh, modelIndex, worldViewProjection, nodeModelMatrix) ==
    IF mesh.alphaMode # "BLEND"
    THEN [acc EXCEPT !.opaqueMeshes =
            Append(@, [mesh |-> mesh, depth |-> <<0, 1>>, modelIndex |-> modelIndex,
                       worldViewProjection |-> worldViewProjection,
                       nodeModelMatrix |-> nodeModelMatrix])]
    ELSE LET centroidPosZ == TransformMat4Z(mesh.centroid, worldViewProjection)
         IN  IF KeepsTransparentMesh(centroidPosZ)
             THEN [acc EXCEPT !.transparentMeshes =
                     Append(@, [mesh |-> mesh, depth |-> centroidPosZ,
                                modelIndex |-> modelIndex,
                                worldViewProjection |-> worldViewProjection,
                                nodeModelMatrix |-> nodeModelMatrix])]
             ELSE acc

RECURSIVE AddMeshes(_, _, _, _, _)
AddMeshes(acc, meshes, modelIndex, worldViewProjection, nodeModelMatrix) ==
    IF meshes = <<>> THEN acc
    ELSE AddMeshes(AddMesh(acc, Head(meshes), modelIndex, worldViewProjection,
                           nodeModelMatrix),
                   Tail(meshes), modelIndex, worldViewProjection, nodeModelMatrix)

\* (mutant) line 228 handing the node's own matrix down to its children
ChildModelMatrixChained(modelMatrix, nodeModelMatrix) == nodeModelMatrix

\* line 228: the modelMatrix handed to the call for a child
ChildModelMatrix(modelMatrix, nodeModelMatrix) == modelMatrix

\* prepareMeshes, lines 200-231 (transform.projection.name is not 'globe')
RECURSIVE prepareMeshes(_, _, _, _, _, _)
RECURSIVE PrepareChildren(_, _, _, _, _, _, _)
prepareMeshes(nodes, node, modelMatrix, projectionMatrix, modelIndex, acc) ==
    LET nodeModelMatrix == MatMul(modelMatrix, nodes[node].matrix)
        worldViewProjection == MatMul(projectionMatrix, nodeModelMatrix)
        withMeshes == AddMeshes(acc, nodes[node].meshes, modelIndex,
                                worldViewProjection, nodeModelMatrix)
    IN  PrepareChildren(nodes, nodes[node].children,
                        ChildModelMatrix(modelMatrix, nodeModelMatrix),
                        projectionMatrix, modelIndex, withMeshes, 1)

PrepareChildren(nodes, children, modelMatrix, projectionMatrix, modelIndex, acc, i) ==
    IF i > Len(children) THEN acc
    ELSE PrepareChildren(nodes, children, modelMatrix, projectionMatrix, modelIndex,
                         prepareMeshes(nodes, children[i], modelMatrix,
                                       projectionMatrix, modelIndex, acc),
                         i + 1)

\* lines 258-277: every node of every model, modelIndex counting from 0
RECURSIVE PrepareModels(_, _, _, _)
PrepareModels(source, projectionMatrix, modelIndex, acc) ==
    IF modelIndex >= Len(source.models) THEN acc
    ELSE LET model == source.models[modelIndex + 1]
         IN  PrepareModels(source, projectionMatrix, modelIndex + 1,
                 PrepareChildren(source.nodes, model.nodes, model.matrix,
                                 projectionMatrix, modelIndex, acc, 1))

\* drawMesh, lines 132-180: assert(opacity > 0), then one program.draw
drawMesh(sortedMesh, opacity, stencilMode, colorMode) ==
    IF ~(opacity > 0) THEN <<GlCall("throw", "AssertionError", "opacity > 0")>>
    ELSE << GlCall("useProgram", "model", sortedMesh.mesh.id),
            [op |-> "draw",
             program |-> "model",
             mesh |-> sortedMesh.mesh.id,
             alphaMode |-> sortedMesh.mesh.alphaMode,
             depth |-> sortedMesh.depth,
             modelIndex |-> sortedMesh.modelIndex,
             worldViewProjection |-> sortedMesh.worldViewProjection,
             nodeModelMatrix |-> sortedMesh.nodeModelMatrix,
             opacity |-> opacity,
             depthFunc |-> "LEQUAL",
             stencilMode |-> stencilMode,
             colorMode |-> colorMode,
             cullFaceMode |-> "backCCW"] >>

\* for (const m of meshes) drawMesh(m, ..., stencilMode, colorMode)
RECURSIVE DrawMeshes(_, _, _, _)
DrawMeshes(meshes, opacity, stencilMode, colorMode) ==
    IF meshes = <<>> THEN <<>>
    ELSE Then(drawMesh(Head(meshes), opacity, stencilMode, colorMode),
              DrawMeshes(Tail(meshes), opacity, stencilMode, colorMode))

\* (mutant) line 284 always true: the two passes of lines 288-297 are never taken
DrawsOpaqueInOnePassAlways(opacity) == TRUE

\* line 284: opaque meshes are drawn in a single pass
DrawsOpaqueInOnePass(opacity) == opacity = 100

\* lines 283-297: the opaque meshes
DrawOpaqueMeshes(opaqueMeshes, opacity) ==
    IF DrawsOpaqueInOnePass(opacity)
    THEN DrawMeshes(opaqueMeshes, opacity, "disabled", "colorModeForRenderPass")
    ELSE Then(DrawMeshes(opaqueMeshes, opacity, "disabled", "disabled"),
         Then(DrawMeshes(opaqueMeshes, opacity, "stencilModeFor3D", "colorModeForRenderPass"),
              <<GlCall("resetStencilClippingMasks", 0, 0)>>))

\* lines 299-302: the sorted transparent meshes
DrawTransparentMeshes(transparentMeshes, opacity) ==
    DrawMeshes(transparentMeshes, opacity, "disabled", "colorModeForRenderPass")

\* (mutant) lines 299-302 moved in front of line 283
DrawTransparentMeshesFirst(opaqueMeshes, transparentMeshes, opacity) ==
    Then(DrawTransparentMeshes(transparentMeshes, opacity),
         DrawOpaqueMeshes(opaqueMeshes, opacity))

\* lines 283-302: opaque meshes, then transparent meshes
DrawSortedMeshes(opaqueMeshes, transparentMeshes, opacity) ==
    Then(DrawOpaqueMeshes(opaqueMeshes, opacity),
         DrawTransparentMeshes(transparentMeshes, opacity))

-----------------------------------------------------------------------------
(* drawModels (part_000), instanced path: inputs *)

\* terrain.findDEMTileFor(bucketTileID): no tile, or a tile with or without
\* dem data; canonical names the tile's tileID.canonical object
NoDemTile == [found |-> FALSE, canonical |-> "undefined", dem |-> FALSE]
DemTile(canonical, dem) == [found |-> TRUE, canonical |-> canonical, dem |-> dem]

\* painter.terrain: absent, or its exaggeration() and DEM tile
NoTerrain == [present |-> FALSE, exaggeration |-> 0, demTile |-> NoDemTile]
Terrains ==
    { NoTerrain,
      [present |-> TRUE, exaggeration |-> 0, demTile |-> DemTile("T1", TRUE)],
      [present |-> TRUE, exaggeration |-> 1, demTile |-> NoDemTile],
      [present |-> TRUE, exaggeration |-> 1, demTile |-> DemTile("T1", FALSE)],
      [present |-> TRUE, exaggeration |-> 1, demTile |-> DemTile("T1", TRUE)],
      [present |-> TRUE, exaggeration |-> 2, demTile |-> DemTile("T1", TRUE)],
      [present |-> TRUE, exaggeration |-> 1, demTile |-> DemTile("T2", TRUE)] }

\* dem.getElevationAt(x, y, true) of the sampler of a DEM tile, in halves
ElevationAt(canonical, x, y) ==
    IF canonical = "T1" THEN 2 * (x + y) + 1 ELSE 2 * (20 + x)

\* The 16 float32 lanes of instance k (k >= 0), in halves: lanes 0 and 1 are
\* 1.5 * (k + 1) and -1.5, lane 6 is the elevation
InstanceLanes(k, elevation) ==
    <<3 * (k + 1), -3, 0, 0, 0, 0, elevation, 0, 0, 0, 0, 0, 0, 0, 0, 0>>

\* instancesEvaluatedElevation[k], in halves
EvaluatedElevation(k) == 10 * (k + 1)

RECURSIVE Float32Lanes(_, _)
Float32Lanes(k, length) ==
    IF k >= length THEN <<>>
    ELSE InstanceLanes(k, EvaluatedElevation(k)) \o Float32Lanes(k + 1, length)

\* bucket.instancesPerModel[modelId]: an instancedDataArray of length
\* elements of bytesPerElement bytes; an array of another stride than 64
\* holds bytesPerElement / 4 lanes per element
Instances(modelId, bytesPerElement, length) ==
    [modelId |-> modelId,
     bytesPerElement |-> bytesPerElement,
     length |-> length,
     float32 |-> SubSeq(Float32Lanes(0, length), 1, length * (bytesPerElement \div 4)),
     instancesEvaluatedElevation |-> [k \in 1..length |-> EvaluatedElevation(k - 1)]]

\* A bucket as ModelBucket leaves it before its first elevation update
FreshBucket(projection, instancesPerModel) ==
    [present |-> TRUE,
     projection |-> projection,
     validForExaggeration |-> 0,
     validForDEMTile |-> "undefined",
     uploaded |-> TRUE,
     instancesPerModel |-> instancesPerModel]

\* tile.getBucket(layer) is undefined
NoBucket ==
    [present |-> FALSE, projection |-> "none", validForExaggeration |-> 0,
     validForDEMTile |-> "undefined", uploaded |-> FALSE, instancesPerModel |-> <<>>]

\* The buckets of the tiles of coords
BucketLists ==
    { << FreshBucket("mercator", <<Instances("m1", 64, MaxInstances)>>) >>,
      << FreshBucket("mercator", <<Instances("m1", 64, 1), Instances("m2", 32, 1)>>) >>,
      << FreshBucket("mercator", <<Instances("m2", 32, MaxInstances)>>) >>,
      << FreshBucket("mercator", <<Instances("m3", 64, 1), Instances("m2", 64, 1)>>) >>,
      << NoBucket, FreshBucket("mercator", <<Instances("m1", 64, 1)>>) >>,
      << FreshBucket("globe", <<Instances("m1", 64, 1)>>),
         FreshBucket("mercator", <<Instances("m2", 64, MaxInstances)>>) >> }

\* modelManager.getModel(modelId): the node arena and root nodes of the
\* model, or no model
ModelManagerModels ==
    [m1 |-> [found |-> TRUE,
             nodes |-> << [meshes |-> <<1>>, children |-> <<2>>],
                          [meshes |-> <<2, 3>>, children |-> <<>>] >>,
             roots |-> <<1>>],
     m2 |-> [found |-> TRUE,
             nodes |-> << [meshes |-> <<4>>, children |-> <<>>] >>,
             roots |-> <<1>>],
     m3 |-> [found |-> FALSE, nodes |-> <<>>, roots |-> <<>>]]

\* transform.projection.name, painter.style.modelManager, painter.shadowRenderer
PainterEnvs ==
    { [projection |-> "mercator", modelManager |-> TRUE,  shadowRenderer |-> TRUE],
      [projection |-> "mercator", modelManager |-> TRUE,  shadowRenderer |-> FALSE],
      [projection |-> "mercator", modelManager |-> FALSE, shadowRenderer |-> TRUE],
      [projection |-> "globe",    modelManager |-> TRUE,  shadowRenderer |-> TRUE] }

\* render pass, opacity and source of a layer drawn with instances
InstancedContexts ==
    { [renderPass |-> "translucent", opacity |-> 50, loaded |-> TRUE, type |-> "vector"],
      [renderPass |-> "translucent", opacity |-> 100, loaded |-> TRUE, type |-> "geojson"],
      [renderPass |-> "shadow", opacity |-> 50, loaded |-> TRUE, type |-> "vector"],
      [renderPass |-> "translucent", opacity |-> 0, loaded |-> TRUE, type |-> "vector"],
      [renderPass |-> "translucent", opacity |-> 50, loaded |-> FALSE, type |-> "geojson"] }

\* history: the bucket has not been through updateModelBucketsElevation
NeverUpdated ==
    [called |-> FALSE, returned |-> FALSE, exaggeration |-> 0, demTile |-> "undefined"]

\* the exaggeration of painter.terrain, line 307
TerrainExaggeration(t) == IF t.present THEN t.exaggeration ELSE 0

\* the canonical id of the DEM tile with data that backs the bucket's tile
BackingDEMTile(t) ==
    IF t.present /\ t.demTile.found /\ t.demTile.dem THEN t.demTile.canonical
    ELSE "undefined"

\* history: the bucket went through updateModelBucketsElevation under terrain t
UpdatedUnder(t, returned) ==
    [called |-> TRUE, returned |-> returned,
     exaggeration |-> TerrainExaggeration(t), demTile |-> BackingDEMTile(t)]

-----------------------------------------------------------------------------
(* drawModels (part_000), instanced path: updateModelBucketsElevation *)

\* (mutant) lines 314-316 missing: the exaggeration is kept without a DEM tile
ExaggerationKeptWithoutDem(t) == TerrainExaggeration(t)

\* lines 307-317: exaggeration after the DEM tile lookup
EffectiveExaggeration(t) ==
    LET exaggeration == TerrainExaggeration(t)
    IN  IF t.present /\ exaggeration > 0
        THEN (IF t.demTile.found /\ t.demTile.dem THEN exaggeration ELSE 0)
        ELSE exaggeration

\* lines 308-314: dem, the DEMSampler created for the DEM tile, if any
DemSampler(t) ==
    IF t.present /\ TerrainExaggeration(t) > 0 /\ t.demTile.found /\ t.demTile.dem
    THEN [created |-> TRUE, canonical |-> t.demTile.canonical]
    ELSE [created |-> FALSE, canonical |-> "undefined"]

\* lines 309-314: the calls of the lookup
DemLookupCalls(t, i) ==
    IF t.present /\ TerrainExaggeration(t) > 0
    THEN <<GlCall("findDEMTileFor", <<i, "bucket", 0>>, 0)>>
         \o (IF DemSampler(t).created
             THEN <<GlCall("DEMSampler.create", <<i, "bucket", 0>>, t.demTile.canonical)>>
             ELSE <<>>)
    ELSE <<>>

\* (mutant) lines 318-321 missing: the elevations are never taken as valid
ElevationNeverValid(bucket, exaggeration, dem) == FALSE

\* lines 318-319: the elevations of the bucket are still valid
ElevationIsValid(bucket, exaggeration, dem) ==
    /\ exaggeration = bucket.validForExaggeration
    /\ \/ exaggeration = 0
       \/ dem.created /\ dem.canonical = bucket.validForDEMTile

\* (mutant) lines 325 and 408 missing: the stride is not asserted
StrideAssertionSkipped(instances) == TRUE

\* lines 325 and 408: assert(instancedDataArray.bytesPerElement === 64)
StrideAssertionHolds(instances) == instances.bytesPerElement = 64

\* (mutant) | 0 replaced by Math.floor: a negative lane rounds down
LaneFloored(float32, index) ==
    IF index >= Len(float32) THEN 0
    ELSE LET v == float32[index + 1]
         IN  IF v >= 0 THEN v \div 2 ELSE -((1 - v) \div 2)

\* float32[index] | 0 for a lane in halves: a lane outside the array reads
\* undefined, and undefined | 0 is 0; | 0 truncates toward zero
LaneToInt32(float32, index) ==
    IF index >= Len(float32) THEN 0
    ELSE LET v == float32[index + 1]
         IN  IF v >= 0 THEN v \div 2 ELSE -((-v) \div 2)

\* float32[index] = value: a write outside the array is ignored
LaneWritten(float32, index, value) ==
    IF index >= Len(float32) THEN float32
    ELSE [float32 EXCEPT ![index + 1] = value]

\* lines 326-331: the loop over the instances, from instance k on
RECURSIVE UpdateInstanceElevations(_, _, _, _, _, _)
UpdateInstanceElevations(instances, k, i, exaggeration, dem, calls) ==
    IF k >= instances.length THEN [instances |-> instances, calls |-> calls]
    ELSE LET buffer == <<i, instances.modelId, 0>>
             x == LaneToInt32(instances.float32, k * 16)
             y == LaneToInt32(instances.float32, k * 16 + 1)
             elevation ==
                 (IF dem.created
                  THEN exaggeration * ElevationAt(dem.canonical, x, y)
                  ELSE 0) + instances.instancesEvaluatedElevation[k + 1]
         IN  UpdateInstanceElevations(
                 [instances EXCEPT !.float32 = LaneWritten(@, k * 16 + 6, elevation)],
                 k + 1, i, exaggeration, dem,
                 calls \o <<GlCall("readLane", buffer, k * 16),
                            GlCall("readLane", buffer, k * 16 + 1)>>
                       \o (IF dem.created
                           THEN <<GlCall("getElevationAt", buffer, <<x, y>>)>>
                           ELSE <<>>)
                       \o <<GlCall("writeLane", buffer, k * 16 + 6)>>)

\* lines 323-332: the loop over the models, from the m-th on
RECURSIVE UpdateModelElevations(_, _, _, _, _, _)
UpdateModelElevations(instancesPerModel, m, i, exaggeration, dem, calls) ==
    IF m > Len(instancesPerModel) \/ Failed(calls)
    THEN [instancesPerModel |-> instancesPerModel, calls |-> calls]
    ELSE LET instances == instancesPerModel[m]
             asserted == GlCall("assertStride", <<i, instances.modelId, 0>>,
                                instances.bytesPerElement)
         IN  IF ~StrideAssertionHolds(instances)
             THEN [instancesPerModel |-> instancesPerModel,
                   calls |-> calls \o <<asserted,
                       GlCall("throw", "AssertionError", "bytesPerElement === 64")>>]
             ELSE LET updated == UpdateInstanceElevations(instances, 0, i, exaggeration,
                                                          dem, calls \o <<asserted>>)
                  IN  UpdateModelElevations(
                          [instancesPerModel EXCEPT ![m] = updated.instances],
                          m + 1, i, exaggeration, dem, updated.calls)

\* updateModelBucketsElevation(painter, bucket, bucketTileID), lines 306-337,
\* for bucket i under terrain t: the bucket after the call and the calls made.
\* bucket.upload is kept as a call.
updateModelBucketsElevation(bucket, i, t) ==
    LET exaggeration == EffectiveExaggeration(t)
        dem == DemSampler(t)
        lookup == DemLookupCalls(t, i)
    IN  IF ElevationIsValid(bucket, exaggeration, dem)
        THEN [bucket |-> bucket, calls |-> lookup]
        ELSE LET updated == UpdateModelElevations(bucket.instancesPerModel, 1, i,
                                                  exaggeration, dem, <<>>)
             IN  IF Failed(updated.calls)
                 THEN [bucket |-> [bucket EXCEPT
                                      !.instancesPerModel = updated.instancesPerModel],
                       calls |-> lookup \o updated.calls]
                 ELSE [bucket |-> [bucket EXCEPT
                                      !.instancesPerModel = updated.instancesPerModel,
                                      !.validForExaggeration = exaggeration,
                                      !.validForDEMTile =
                                          IF dem.created THEN dem.canonical
                                          ELSE "undefined",
                                      !.uploaded = FALSE],
                       calls |-> lookup \o updated.calls
                                 \o <<GlCall("upload", <<i, "bucket", 0>>, 0)>>]

-----------------------------------------------------------------------------
(* drawModels (part_000), instanced path: drawInstancedModels *)

\* transform.calculatePosMatrix(unwrappedTileID, transform.worldSize)
PosMatrix(tile) == [kind |-> "tile", tile |-> tile]

\* mat4.multiply(lightMatrix, cascade.matrix, matrix), shadow_renderer.js
\* lines 296 and 314: the product is held as its two factors
LightMatrixTimes(cascadeMatrix, matrix) ==
    [kind |-> "product", left |-> cascadeMatrix, right |-> matrix]

\* (mutant) lines 296-297 multiplying into the uniform that is already there
LightMatrixUniformsAccumulated(uniforms, cascades, matrix) ==
    [uniforms EXCEPT
        !.u_light_matrix_0 = LightMatrixTimes(uniforms.u_light_matrix_0, matrix),
        !.u_light_matrix_1 = LightMatrixTimes(uniforms.u_light_matrix_1, matrix)]

\* shadow_renderer.js lines 295-300 and 313-318: this._uniformValues after
\* the loop over the cascades
LightMatrixUniforms(uniforms, cascades, matrix) ==
    [uniforms EXCEPT
        !.u_light_matrix_0 = LightMatrixTimes(cascades[1].matrix, matrix),
        !.u_light_matrix_1 = LightMatrixTimes(cascades[2].matrix, matrix)]

\* setupShadowsFromMatrix(worldMatrix, program), shadow_renderer.js lines
\* 305-320: the calls. Texture slot ShadowMap0 + i is named by i.
setupShadowsFromMatrix(enabled, cascades, uniforms, worldMatrix, program) ==
    IF ~enabled THEN <<>>
    ELSE IF Len(cascades) < cascadeCount
    THEN <<GlCall("throw", "TypeError", "_cascades[i].matrix")>>
    ELSE <<GlCall("bindShadowMap", cascades[1].texture, 0),
           GlCall("bindShadowMap", cascades[2].texture, 1),
           GlCall("setShadowUniformValues", program,
                  LightMatrixUniforms(uniforms, cascades, worldMatrix))>>

\* setupShadows(unwrappedTileID, program), shadow_renderer.js lines 282-303:
\* the calls
setupShadows(enabled, cascades, uniforms, unwrappedTileID, program) ==
    IF ~enabled THEN <<>>
    ELSE IF Len(cascades) < cascadeCount
    THEN <<GlCall("throw", "TypeError", "_cascades[i].matrix")>>
    ELSE <<GlCall("bindShadowMap", cascades[1].texture, 0),
           GlCall("bindShadowMap", cascades[2].texture, 1),
           GlCall("setShadowUniformValues", program,
                  LightMatrixUniforms(uniforms, cascades, PosMatrix(unwrappedTileID)))>>

\* this._uniformValues after calls: uniforms is the object handed to
\* program.setShadowUniformValues, so it is what the last of them was given
RECURSIVE UniformValuesAfterSetupShadows(_, _)
UniformValuesAfterSetupShadows(uniforms, calls) ==
    IF calls = <<>> THEN uniforms
    ELSE LET last == calls[Len(calls)]
         IN  IF last.op = "setShadowUniformValues" THEN last.b
             ELSE UniformValuesAfterSetupShadows(uniforms,
                                                 SubSeq(calls, 1, Len(calls) - 1))

\* calls, then the calls that follow them under the uniform values they leave
ThenWith(uniforms, calls, more(_)) ==
    IF Failed(calls) THEN calls
    ELSE calls \o more(UniformValuesAfterSetupShadows(uniforms, calls))

\* lines 410-415: one program.draw per instance, from instance k on
RECURSIVE DrawInstances(_, _, _, _)
DrawInstances(instances, k, buffer, calls) ==
    IF k >= instances.length \/ Failed(calls) THEN calls
    ELSE DrawInstances(instances, k + 1, buffer,
            IF k * 64 + 64 > instances.length * instances.bytesPerElement
            THEN calls \o <<GlCall("throw", "RangeError", "Float32Array")>>
            ELSE calls \o <<GlCall("subRange", buffer, k * 64),
                            [op |-> "drawInstance", a |-> buffer, b |-> k,
                             program |-> "model",
                             stencilMode |-> "disabled",
                             colorMode |-> "colorModeForRenderPass",
                             cullFaceMode |-> "disabled"]>>)

\* line 385: drawInstancedNode sets the shadows up for the mesh
InstancedNodeSetsUpShadows(pass, env) == pass # "shadow" /\ env.shadowRenderer

\* lines 376-416: one mesh of a node
DrawInstancedMesh(mesh, instances, i, pass, env, enabled, cascades, uniforms) ==
    LET buffer == <<i, instances.modelId, mesh>>
        asserted == GlCall("assertStride", buffer, instances.bytesPerElement)
    IN  Then(<<GlCall("useProgram", "model", buffer)>>,
        Then(IF InstancedNodeSetsUpShadows(pass, env)
             THEN setupShadows(enabled, cascades, uniforms, i, "model")
             ELSE <<>>,
             IF ~StrideAssertionHolds(instances)
             THEN <<asserted, GlCall("throw", "AssertionError", "bytesPerElement === 64")>>
             ELSE DrawInstances(instances, 0, buffer, <<asserted>>)))

\* drawInstancedNode(painter, layer, node, modelInstances, cameraPos, coord),
\* lines 372-423
RECURSIVE drawInstancedNode(_, _, _, _, _, _, _, _, _)
RECURSIVE DrawInstancedMeshes(_, _, _, _, _, _, _, _)
RECURSIVE DrawInstancedNodes(_, _, _, _, _, _, _, _, _)
drawInstancedNode(nodes, node, instances, i, pass, env, enabled, cascades, uniforms) ==
    LET children(u) == DrawInstancedNodes(nodes, nodes[node].children, instances, i,
                                          pass, env, enabled, cascades, u)
    IN  ThenWith(uniforms,
                 DrawInstancedMeshes(nodes[node].meshes, instances, i, pass, env,
                                     enabled, cascades, uniforms),
                 children)

DrawInstancedMeshes(meshes, instances, i, pass, env, enabled, cascades, uniforms) ==
    IF meshes = <<>> THEN <<>>
    ELSE LET rest(u) == DrawInstancedMeshes(Tail(meshes), instances, i, pass, env,
                                            enabled, cascades, u)
         IN  ThenWith(uniforms,
                      DrawInstancedMesh(Head(meshes), instances, i, pass, env, enabled,
                                        cascades, uniforms),
                      rest)

DrawInstancedNodes(nodes, list, instances, i, pass, env, enabled, cascades, uniforms) ==
    IF list = <<>> THEN <<>>
    ELSE LET rest(u) == DrawInstancedNodes(nodes, Tail(list), instances, i, pass, env,
                                           enabled, cascades, u)
         IN  ThenWith(uniforms,
                      drawInstancedNode(nodes, Head(list), instances, i, pass, env,
                                        enabled, cascades, uniforms),
                      rest)

\* lines 361-368: the models of one bucket, from the m-th on
RECURSIVE DrawBucketModels(_, _, _, _, _, _, _, _)
DrawBucketModels(instancesPerModel, m, i, pass, env, enabled, cascades, uniforms) ==
    IF m > Len(instancesPerModel) THEN <<>>
    ELSE LET instances == instancesPerModel[m]
             model == ModelManagerModels[instances.modelId]
             rest(u) == DrawBucketModels(instancesPerModel, m + 1, i, pass, env,
                                         enabled, cascades, u)
         IN  ThenWith(uniforms,
                      IF ~model.found THEN <<>>
                      ELSE DrawInstancedNodes(model.nodes, model.roots, instances, i,
                                              pass, env, enabled, cascades, uniforms),
                      rest)

\* lines 350-369: the loop over coords, from the i-th on
RECURSIVE DrawInstancedCoords(_, _, _, _, _, _, _, _, _, _)
DrawInstancedCoords(bs, i, t, pass, env, enabled, cascades, uniforms, history, calls) ==
    IF i > Len(bs) \/ Failed(calls)
    THEN [buckets |-> bs, lastUpdate |-> history, calls |-> calls]
    ELSE IF ~bs[i].present \/ bs[i].projection # env.projection
    THEN DrawInstancedCoords(bs, i + 1, t, pass, env, enabled, cascades, uniforms,
                             history, calls)
    ELSE LET updated == updateModelBucketsElevation(bs[i], i, t)
             draws == DrawBucketModels(updated.bucket.instancesPerModel, 1, i, pass, env,
                          enabled, cascades,
                          UniformValuesAfterSetupShadows(uniforms, calls))
         IN  DrawInstancedCoords(
                 [bs EXCEPT ![i] = updated.bucket], i + 1, t, pass, env, enabled,
                 cascades, uniforms,
                 [history EXCEPT ![i] = UpdatedUnder(t, ~Failed(updated.calls))],
                 calls \o Then(updated.calls, draws))

\* (mutant) lines 341-344 missing: every projection is drawn
InstancedDrawingImplementedAlways(projection) == TRUE

\* line 341: tr.projection.name === 'mercator'
InstancedDrawingImplemented(projection) == projection = "mercator"

\* drawInstancedModels(painter, source, layer, coords), lines 339-370
drawInstancedModels(bs, t, pass, env, enabled, cascades, uniforms, history) ==
    IF ~InstancedDrawingImplemented(env.projection)
    THEN [buckets |-> bs, lastUpdate |-> history,
          calls |-> <<GlCall("warnOnce", env.projection, 0)>>]
    ELSE IF ~env.modelManager
    THEN [buckets |-> bs, lastUpdate |-> history, calls |-> <<>>]
    ELSE DrawInstancedCoords(bs, 1, t, pass, env, enabled, cascades, uniforms,
                             history, <<>>)

\* (mutant) lines 237-239 missing: no opacity counts as totally transparent
NeverTotallyTransparent(opacity) == FALSE

\* line 237: opacity === 0
IsTotallyTransparent(opacity) == opacity = 0

\* (mutant) line 234 missing: drawModels draws in every render pass
DrawModelsReturnsEarlyInAnyPass(pass, opacity, source) ==
    opacity = 0 \/ ~source.loaded

\* lines 234-243: drawModels returns before it draws or updates anything
DrawModelsReturnsEarly(pass, opacity, source) ==
    pass # "translucent" \/ IsTotallyTransparent(opacity) \/ ~source.loaded

\* lines 234-247: where drawModels goes: it returns, or draws instances, or
\* draws the meshes of the models of the source
DrawModelsPath(pass, opacity, source) ==
    IF DrawModelsReturnsEarly(pass, opacity, source) THEN "return"
    ELSE IF source.type = "vector" \/ source.type = "geojson" THEN "instanced"
    ELSE "meshes"

\* lines 248-302: the calls of the mesh path
DrawModelMeshes(source, projectionMatrix, opacity) ==
    LET prepared == PrepareModels(source, projectionMatrix, 0,
                                  [transparentMeshes |-> <<>>, opaqueMeshes |-> <<>>])
        transparentMeshes == ArraySort(prepared.transparentMeshes)
    IN  DrawSortedMeshes(prepared.opaqueMeshes, transparentMeshes, opacity)

\* drawModels(painter, sourceCache, layer, coords), lines 233-303
DrawModels ==
    LET path == DrawModelsPath(renderPass, modelOpacity, modelSource)
        instanced == drawInstancedModels(buckets, terrain, renderPass, painterEnv,
                                         _enabled, _cascades, _uniformValues,
                                         lastUpdate)
        calls == IF path = "meshes"
                 THEN DrawModelMeshes(modelSource, projMatrix, modelOpacity)
                 ELSE IF path = "instanced" THEN instanced.calls
                 ELSE <<>>
    IN  /\ glLog' = calls
        /\ thrown' = IF Failed(calls) THEN calls[Len(calls)].a ELSE "none"
        /\ buckets' = IF path = "instanced" THEN instanced.buckets ELSE buckets
        /\ lastUpdate' = IF path = "instanced" THEN instanced.lastUpdate ELSE lastUpdate
        /\ _uniformValues' = UniformValuesAfterSetupShadows(_uniformValues, calls)
        /\ lastOp' = [name |-> "drawModels", path |-> path, previous |-> lastUpdate]
        /\ UNCHANGED <<_enabled, _shadowLayerCount, _cascades,
                       isWebGL2, _shadowMapDebug, currentShadowCascade, styleOrder,
                       gpuCreated, gpuDestroyed, hadEnabledUpdate, destroyCalls>>
        /\ UNCHANGED <<projectionVars, drawVars, terrain, painterEnv>>

\* updateModelBucketsElevation(painter, bucket, bucketTileID) called on bucket i
UpdateModelBucketsElevation(i) ==
    /\ i \in DOMAIN buckets
    /\ buckets[i].present
    /\ LET updated == updateModelBucketsElevation(buckets[i], i, terrain)
       IN  /\ buckets' = [buckets EXCEPT ![i] = updated.bucket]
           /\ glLog' = updated.calls
           /\ thrown' = IF Failed(updated.calls)
                        THEN updated.calls[Len(updated.calls)].a ELSE "none"
           /\ lastUpdate' = [lastUpdate EXCEPT
                                ![i] = UpdatedUnder(terrain, ~Failed(updated.calls))]
    /\ lastOp' = [name |-> "updateModelBucketsElevation", bucket |-> i,
                  previous |-> lastUpdate]
    /\ UNCHANGED <<_enabled, _shadowLayerCount, _cascades, _uniformValues,
                   isWebGL2, _shadowMapDebug, currentShadowCascade, styleOrder,
                   gpuCreated, gpuDestroyed, hadEnabledUpdate, destroyCalls>>
    /\ UNCHANGED <<projectionVars, drawVars, terrain, painterEnv>>

\* The map's terrain changes between two frames: painter.terrain is t from now on
SetTerrain(t) ==
    /\ t # terrain
    /\ terrain' = t
    /\ glLog' = <<>>
    /\ thrown' = "none"
    /\ lastOp' = [name |-> "setTerrain"]
    /\ UNCHANGED <<_enabled, _shadowLayerCount, _cascades, _uniformValues,
                   isWebGL2, _shadowMapDebug, currentShadowCascade, styleOrder,
                   gpuCreated, gpuDestroyed, hadEnabledUpdate, destroyCalls>>
    /\ UNCHANGED <<projectionVars, drawVars, buckets, lastUpdate, painterEnv>>

-----------------------------------------------------------------------------
(* ShadowRenderer (shadow_renderer.js): receiving shadows *)

\* programs that receive shadows, tiles (by index in coords) and world matrices
ReceiverPrograms == {"model", "fillExtrusion"}
ReceiverTiles == {1, 2}
WorldMatrices ==
    { [kind |-> "world", elements |-> IdentityMat],
      [kind |-> "world", elements |-> MirrorZ] }

\* style.directionalLight and style.ambientLight as drawGroundShadows finds
\* them, and what transform.coveringTiles returns
GroundLights ==
    { [directionalLight |-> TRUE,  ambientLight |-> TRUE],
      [directionalLight |-> TRUE,  ambientLight |-> FALSE],
      [directionalLight |-> FALSE, ambientLight |-> TRUE] }
CoveringTiles == { <<>>, <<1>>, <<2, 1>> }

\* what a call remembers of the setupShadows or setupShadowsFromMatrix before it
SetupSummary(op) ==
    IF op.name = "setupShadows" \/ op.name = "setupShadowsFromMatrix"
    THEN [name |-> op.name, matrix |-> op.matrix, program |-> op.program]
    ELSE Summary(op)

\* setupShadows(unwrappedTileID, program), lines 282-303
SetupShadows(unwrappedTileID, program) ==
    LET calls == setupShadows(_enabled, _cascades, _uniformValues, unwrappedTileID,
                              program)
    IN  /\ glLog' = calls
        /\ thrown' = IF Failed(calls) THEN calls[Len(calls)].a ELSE "none"
        /\ _uniformValues' = UniformValuesAfterSetupShadows(_uniformValues, calls)
        /\ lastOp' = [name |-> "setupShadows", matrix |-> PosMatrix(unwrappedTileID),
                      program |-> program, after |-> SetupSummary(lastOp)]
        /\ UNCHANGED <<_enabled, _shadowLayerCount, _cascades,
                       isWebGL2, _shadowMapDebug, currentShadowCascade, styleOrder,
                       gpuCreated, gpuDestroyed, hadEnabledUpdate, destroyCalls>>
        /\ UNCHANGED <<projectionVars, drawVars, instancedVars>>

\* setupShadowsFromMatrix(worldMatrix, program), lines 305-320
SetupShadowsFromMatrix(worldMatrix, program) ==
    LET calls == setupShadowsFromMatrix(_enabled, _cascades, _uniformValues,
                                        worldMatrix, program)
    IN  /\ glLog' = calls
        /\ thrown' = IF Failed(calls) THEN calls[Len(calls)].a ELSE "none"
        /\ _uniformValues' = UniformValuesAfterSetupShadows(_uniformValues, calls)
        /\ lastOp' = [name |-> "setupShadowsFromMatrix", matrix |-> worldMatrix,
                      program |-> program, after |-> SetupSummary(lastOp)]
        /\ UNCHANGED <<_enabled, _shadowLayerCount, _cascades,
                       isWebGL2, _shadowMapDebug, currentShadowCascade, styleOrder,
                       gpuCreated, gpuDestroyed, hadEnabledUpdate, destroyCalls>>
        /\ UNCHANGED <<projectionVars, drawVars, instancedVars>>

\* lines 241-253: the loop over the covering tiles
RECURSIVE GroundShadowTiles(_, _, _, _)
GroundShadowTiles(tiles, enabled, cascades, uniforms) ==
    IF tiles = <<>> THEN <<>>
    ELSE LET rest(u) == GroundShadowTiles(Tail(tiles), enabled, cascades, u)
             tile(u) ==
                 << [op |-> "drawGroundShadow", a |-> Head(tiles), b |-> 0,
                     program |-> "groundShadow",
                     stencilMode |-> "disabled",
                     colorMode |-> "multiply",
                     cullFaceMode |-> "disabled"] >>
         IN  ThenWith(uniforms,
                      ThenWith(uniforms,
                               setupShadows(enabled, cascades, uniforms, Head(tiles),
                                            "groundShadow"),
                               tile),
                      rest)

\* (mutant) lines 213-215 missing: drawGroundShadows goes on when disabled
GroundShadowsNeverReturnEarly(enabled) == FALSE

\* lines 213-215: drawGroundShadows returns at once
GroundShadowsReturnEarly(enabled) == ~enabled

\* drawGroundShadows(), lines 212-254: the calls
drawGroundShadows(enabled, cascades, uniforms, lights, tiles) ==
    IF GroundShadowsReturnEarly(enabled) THEN <<>>
    ELSE IF ~lights.directionalLight \/ ~lights.ambientLight THEN <<>>
    ELSE Then(<<GlCall("useProgram", "groundShadow", 0)>>,
              GroundShadowTiles(tiles, enabled, cascades, uniforms))

DrawGroundShadows(lights, tiles) ==
    LET calls == drawGroundShadows(_enabled, _cascades, _uniformValues, lights, tiles)
    IN  /\ glLog' = calls
        /\ thrown' = IF Failed(calls) THEN calls[Len(calls)].a ELSE "none"
        /\ _uniformValues' = UniformValuesAfterSetupShadows(_uniformValues, calls)
        /\ lastOp' = [name |-> "drawGroundShadows", lights |-> lights, tiles |-> tiles]
        /\ UNCHANGED <<_enabled, _shadowLayerCount, _cascades,
                       isWebGL2, _shadowMapDebug, currentShadowCascade, styleOrder,
                       gpuCreated, gpuDestroyed, hadEnabledUpdate, destroyCalls>>
        /\ UNCHANGED <<projectionVars, drawVars, instancedVars>>

-----------------------------------------------------------------------------
(* createLightMatrix (shadow_renderer.js): texel snapping, along one axis *)

\* Rational numbers are fractions in lowest terms. Mercator coordinates are
\* in millionths of the world, so that Math.floor(c * 1e6) / 1e6 is the floor
\* of the coordinate, and transform.worldSize is in pixels per millionth.
RatAdd(x, y) == Fraction(x[1] * y[2] + y[1] * x[2], x[2] * y[2])
RatSub(x, y) == Fraction(x[1] * y[2] - y[1] * x[2], x[2] * y[2])
RatMul(x, y) == Fraction(x[1] * y[1], x[2] * y[2])
RatLess(x, y) == x[1] * y[2] < y[1] * x[2]
RatAbs(x) == <<Abs(x[1]), x[2]>>
MathFloor(x) == x[1] \div x[2]

\* sphereCenter[0]: the centre of the cascade's bounding sphere, which follows
\* the camera, in steps of 1 / SnapSteps of a millionth
SnapSteps == 4
MaxSphereCenter == 11
SphereCenters == { Fraction(n, SnapSteps) : n \in 0..MaxSphereCenter }

\* transform.worldSize (a low, a middle and a high zoom) and radiusPx, the
\* radius of the sphere in pixels
WorldSizes == { <<1, 4>>, <<1, 1>>, <<3, 1>> }
RadiiPx == { shadowMapResolution \div 2, shadowMapResolution }

\* shadowDirection, a unit vector from straight above (polar angle 0) down to
\* the horizontal (polar angle 90), and verticalRange * pixelsPerMeter
ShadowDirections == { sphericalPositionToCartesian(polar) : polar \in {0, 75, 90} }
VerticalRangesPx == { 0, 512 }

\* line 481: halfResolution = 0.5 * resolution
HalfResolution == shadowMapResolution \div 2

\* lines 464-476 along one axis: the orthographic projection of the light
\* camera placed at sphereCenter, from world pixels to clip space:
\* clip = (x - sphereCenter * ws) / radiusPx, held as scale and translation
LightWorldToClip(sphereCenter, ws, radiusPx) ==
    [scale     |-> Fraction(1, radiusPx),
     translate |-> RatMul(RatMul(<<-1, 1>>, RatMul(sphereCenter, ws)),
                          Fraction(1, radiusPx))]

\* vec3.transformMat4(out, x, m)
TransformMat4(x, m) == RatAdd(RatMul(m.scale, x), m.translate)

\* line 479: alignedCenter
AlignedCenter(sphereCenter, ws) == RatMul(<<MathFloor(sphereCenter), 1>>, ws)

\* lines 482-484: projectedPoint, the projection of a point in half-texels
\* of clip space scaled to texels
ProjectedPoint(point, m) == RatMul(TransformMat4(point, m), <<HalfResolution, 1>>)

\* (mutant) line 489 scaling by 1 / halfResolution: the offset is added
\* instead of cancelled
OffsetVecAdded(projectedPoint) ==
    RatMul(RatSub(projectedPoint, <<MathFloor(projectedPoint), 1>>),
           Fraction(1, HalfResolution))

\* lines 486-489: offsetVec = (projectedPoint - roundedPoint) * (-1 / halfResolution)
OffsetVec(projectedPoint) ==
    RatMul(RatSub(projectedPoint, <<MathFloor(projectedPoint), 1>>),
           Fraction(-1, HalfResolution))

\* lines 491-494: truncMatrix * lightWorldToClip, truncMatrix the translation
\* by offsetVec
TruncatedBy(m, offsetVec) ==
    [scale |-> m.scale, translate |-> RatAdd(m.translate, offsetVec)]

\* lines 478-496: the light matrix createLightMatrix returns
SnappedLightMatrix(sphereCenter, ws, radiusPx) ==
    LET lightWorldToClip == LightWorldToClip(sphereCenter, ws, radiusPx)
        projectedPoint == ProjectedPoint(AlignedCenter(sphereCenter, ws), lightWorldToClip)
    IN  TruncatedBy(lightWorldToClip, OffsetVec(projectedPoint))

\* no createLightMatrix before this one
NoLightMatrix ==
    [called |-> FALSE, sphereCenter |-> <<0, 1>>,
     lightWorldToClip |-> [scale |-> <<1, 1>>, translate |-> <<0, 1>>]]

\* createLightMatrix for a cascade whose sphere is centred at sphereCenter;
\* between two calls the camera moves and the zoom, the light and the terrain
\* stay
CreateLightMatrix(sphereCenter, ws, radiusPx, shadowDirection, verticalRangePx) ==
    /\ lastOp.name = "createLightMatrix" =>
          /\ ws = lastOp.ws /\ radiusPx = lastOp.radiusPx
          /\ shadowDirection = lastOp.shadowDirection
          /\ verticalRangePx = lastOp.verticalRangePx
    /\ lastOp' = [name |-> "createLightMatrix",
                  sphereCenter |-> sphereCenter,
                  ws |-> ws,
                  radiusPx |-> radiusPx,
                  shadowDirection |-> shadowDirection,
                  verticalRangePx |-> verticalRangePx,
                  orthographicFar |->
                      OrthographicFar(radiusPx, verticalRangePx, shadowDirection),
                  lightWorldToClip |-> SnappedLightMatrix(sphereCenter, ws, radiusPx),
                  previous |-> IF lastOp.name = "createLightMatrix"
                               THEN [called |-> TRUE,
                                     sphereCenter |-> lastOp.sphereCenter,
                                     lightWorldToClip |-> lastOp.lightWorldToClip]
                               ELSE NoLightMatrix]
    /\ UNCHANGED <<_enabled, _shadowLayerCount, _cascades, _uniformValues,
                   isWebGL2, _shadowMapDebug, currentShadowCascade, styleOrder,
                   gpuCreated, gpuDestroyed, glLog, thrown, hadEnabledUpdate,
                   destroyCalls>>
    /\ UNCHANGED <<projectionVars, drawVars, instancedVars>>

-----------------------------------------------------------------------------
(* ShadowRenderer (shadow_renderer.js): the shadow pass matrices *)

\* most products of light matrices a matrix object is taken through
MaxProducts == 2

\* how many light matrices were multiplied into a matrix
RECURSIVE Products(_)
Products(matrix) ==
    IF matrix.kind = "product" THEN 1 + Products(matrix.right) ELSE 0

\* calculateShadowPassMatrixFromTile(unwrappedId), lines 268-274: the product
\* is written into the tile matrix calculatePosMatrix has just made
calculateShadowPassMatrixFromTile(cascades, cascade, unwrappedId) ==
    IF cascade + 1 > Len(cascades)
    THEN [thrown |-> "TypeError", result |-> NotRead]
    ELSE [thrown |-> "none",
          result |-> LightMatrixTimes(cascades[cascade + 1].matrix, PosMatrix(unwrappedId))]

\* calculateShadowPassMatrixFromMatrix(matrix), lines 276-280:
\* mat4.multiply(matrix, lightMatrix, matrix) writes the product into the
\* argument; matrix is the caller's object after the call
calculateShadowPassMatrixFromMatrix(cascades, cascade, matrix) ==
    IF cascade + 1 > Len(cascades)
    THEN [thrown |-> "TypeError", matrix |-> matrix, result |-> NotRead]
    ELSE LET product == LightMatrixTimes(cascades[cascade + 1].matrix, matrix)
         IN  [thrown |-> "none", matrix |-> product, result |-> product]

CalculateShadowPassMatrixFromTile(unwrappedId) ==
    LET call == calculateShadowPassMatrixFromTile(_cascades, currentShadowCascade,
                                                  unwrappedId)
    IN  /\ glLog' = <<>>
        /\ thrown' = call.thrown
        /\ lastOp' = [name |-> "calculateShadowPassMatrixFromTile",
                      tile |-> unwrappedId, result |-> call.result]
        /\ UNCHANGED <<_enabled, _shadowLayerCount, _cascades, _uniformValues,
                       isWebGL2, _shadowMapDebug, currentShadowCascade, styleOrder,
                       gpuCreated, gpuDestroyed, hadEnabledUpdate, destroyCalls>>
        /\ UNCHANGED <<projectionVars, drawVars, instancedVars>>

\* calculateShadowPassMatrixFromMatrix called with a matrix the caller has
\* just made, or (held) with the object it passed to the call before
CalculateShadowPassMatrixFromMatrix(matrix, held) ==
    /\ held => /\ lastOp.name = "calculateShadowPassMatrixFromMatrix"
               /\ Products(lastOp.matrix) < MaxProducts
    /\ LET argument == IF held THEN lastOp.matrix ELSE matrix
           call == calculateShadowPassMatrixFromMatrix(_cascades, currentShadowCascade,
                                                       argument)
       IN  /\ glLog' = <<>>
           /\ thrown' = call.thrown
           /\ lastOp' = [name |-> "calculateShadowPassMatrixFromMatrix",
                         held |-> held,
                         argument |-> argument,
                         matrix |-> call.matrix,
                         result |-> call.result,
                         previous |-> IF held
                                      THEN [thrown |-> thrown, result |-> lastOp.result]
                                      ELSE [thrown |-> "none", result |-> NotRead]]
    /\ UNCHANGED <<_enabled, _shadowLayerCount, _cascades, _uniformValues,
                   isWebGL2, _shadowMapDebug, currentShadowCascade, styleOrder,
                   gpuCreated, gpuDestroyed, hadEnabledUpdate, destroyCalls>>
    /\ UNCHANGED <<projectionVars, drawVars, instancedVars>>

-----------------------------------------------------------------------------
(* getProjection and the table of projections (shadow_renderer.js 546-613) *)

\* the functions of a projection, by the module that defines them and its
\* argument
ProjectionFunction(of, arg) == [of |-> of, arg |-> arg]

\* lines 546-555: the objects of the table as their modules export them, the
\* conic ones with their own parallels; parallels <<>> stands for none
ProjectionTable ==
    [mercator |->
        [name |-> "mercator", conic |-> FALSE, parallels |-> <<>>,
         wrap |-> TRUE, supportsWorldCopies |-> TRUE, flat |-> FALSE,
         project |-> ProjectionFunction("mercator", 0),
         unproject |-> ProjectionFunction("mercator", 0)],
     albers |->
        [name |-> "albers", conic |-> TRUE, parallels |-> <<30, 45>>,
         wrap |-> FALSE, supportsWorldCopies |-> FALSE, flat |-> FALSE,
         project |-> ProjectionFunction("albers", 0),
         unproject |-> ProjectionFunction("albers", 0)],
     lambertConformalConic |->
        [name |-> "lambertConformalConic", conic |-> TRUE, parallels |-> <<33, 45>>,
         wrap |-> FALSE, supportsWorldCopies |-> FALSE, flat |-> FALSE,
         project |-> ProjectionFunction("lambertConformalConic", 0),
         unproject |-> ProjectionFunction("lambertConformalConic", 0)],
     globe |->
        [name |-> "globe", conic |-> FALSE, parallels |-> <<>>,
         wrap |-> TRUE, supportsWorldCopies |-> FALSE, flat |-> FALSE,
         project |-> ProjectionFunction("globe", 0),
         unproject |-> ProjectionFunction("globe", 0)]]

ProjectionsLoaded == projections = ProjectionTable

\* a ProjectionSpecification: a name, with or without parallels
ProjectionConfigs ==
    { [name |-> n] : n \in {"mercator", "albers", "lambertConformalConic", "globe",
                            "unknown"} }
    \cup { [name |-> n, parallels |-> p] :
           n \in {"mercator", "albers", "lambertConformalConic", "globe"},
           p \in { <<10, -10>>, <<30, 45>> } }

\* extend(dest, source) of util.js: the properties of source are assigned to
\* dest, and dest is returned
extend(dest, source) ==
    [f \in DOMAIN dest \cup DOMAIN source |->
        IF f \in DOMAIN source THEN source[f] ELSE dest[f]]

\* cylindricalEqualArea(phi), line 594
cylindricalEqualArea(phi) ==
    [wrap |-> TRUE, supportsWorldCopies |-> TRUE,
     project |-> ProjectionFunction("cylindricalEqualArea", phi),
     unproject |-> ProjectionFunction("cylindricalEqualArea", phi)]

\* lines 596-599: a lambertConformalConic with opposite parallels takes the
\* functions the mercator entry of the table holds now
CylindricalFunctions(table, config) ==
    IF config.name = "lambertConformalConic"
    THEN [wrap |-> TRUE, supportsWorldCopies |-> TRUE,
          project |-> table["mercator"].project,
          unproject |-> table["mercator"].unproject]
    ELSE cylindricalEqualArea(config.parallels[1])

\* line 586: defaultFlatProjectionFunctions, or {} for the globe
DefaultFunctions(projection) ==
    IF projection.name = "globe" THEN <<>> ELSE [flat |-> TRUE]

\* extendProjection(projection, config), lines 585-605
extendProjection(table, projection, config) ==
    IF /\ projection.conic
       /\ "parallels" \in DOMAIN config
       /\ Abs(config.parallels[1] + config.parallels[2]) = 0
    THEN extend(extend(extend(projection, config), CylindricalFunctions(table, config)),
                DefaultFunctions(projection))
    ELSE extend(extend(projection, config), DefaultFunctions(projection))

\* extend returns its first argument: the object in the table is the object
\* returned
TableAfterExtend(table, name, projection) == [table EXCEPT ![name] = projection]

\* getProjection(config), lines 607-613
GetProjection(config) ==
    /\ glLog' = <<>>
    /\ IF config.name \notin DOMAIN projections
       THEN /\ thrown' = "Invalid projection name"
            /\ lastOp' = [name |-> "getProjection", config |-> config, result |-> NotRead]
            /\ UNCHANGED projections
       ELSE LET projection == extendProjection(projections, projections[config.name],
                                               config)
            IN  /\ thrown' = "none"
                /\ lastOp' = [name |-> "getProjection", config |-> config,
                              result |-> projection]
                /\ projections' = TableAfterExtend(projections, config.name, projection)
    /\ UNCHANGED <<_enabled, _shadowLayerCount, _cascades, _uniformValues,
                   isWebGL2, _shadowMapDebug, currentShadowCascade, styleOrder,
                   gpuCreated, gpuDestroyed, hadEnabledUpdate, destroyCalls>>
    /\ UNCHANGED <<drawVars, instancedVars>>

-----------------------------------------------------------------------------
(* Specifications *)

\* new ShadowRenderer(painter), lines 53-60
ShadowRendererConstructed ==
    /\ _enabled = FALSE
    /\ _shadowLayerCount = 0
    /\ _cascades = <<>>
    /\ _uniformValues = DefaultShadowUniformValues
    /\ currentShadowCascade = 0
    /\ gpuCreated = [framebuffers |-> 0, depthTextures |-> 0, colorTextures |-> 0]
    /\ gpuDestroyed = [framebuffers |-> {}, textures |-> {}]
    /\ glLog = <<>>
    /\ thrown = "none"
    /\ lastOp = NoOp
    /\ hadEnabledUpdate = FALSE
    /\ destroyCalls = 0

\* a model layer whose source holds the given meshes
ModelLayerReady(context, shape, meshes) ==
    /\ renderPass = context.renderPass
    /\ modelOpacity = context.opacity
    /\ modelSource = ModelSource(context.loaded, context.type, shape, meshes)
    /\ projMatrix = shape.projMatrix

\* no tile holds a bucket of instances
NoInstances ==
    /\ terrain = NoTerrain
    /\ buckets = <<>>
    /\ lastUpdate = <<>>
    /\ painterEnv \in {e \in PainterEnvs : e.projection = "mercator" /\ e.modelManager
                                            /\ e.shadowRenderer}

\* The shadow renderer of any painter and style; no model layer is drawn.
InitShadow ==
    /\ ShadowRendererConstructed
    /\ ProjectionsLoaded
    /\ NoInstances
    /\ isWebGL2 \in BOOLEAN
    /\ _shadowMapDebug \in BOOLEAN
    /\ styleOrder \in StyleOrders
    /\ \E context \in {c \in DrawContexts : c.renderPass = "shadow"},
          shape \in {sh \in SceneShapes : Len(sh.nodes) = 1} :
          ModelLayerReady(context, shape, <<>>)

NextShadow ==
    \/ \E transform \in Transforms, directionalLight \in Lights :
          UpdateShadowParameters(transform, directionalLight)
    \/ \E enabled \in BOOLEAN : SetEnabled(enabled)
    \/ DrawShadowPass
    \/ Destroy

SpecShadow == InitShadow /\ [][NextShadow]_vars

\* drawModels on any model source, render pass and opacity
InitModels ==
    /\ ShadowRendererConstructed
    /\ ProjectionsLoaded
    /\ NoInstances
    /\ isWebGL2 = TRUE
    /\ _shadowMapDebug = FALSE
    /\ styleOrder = <<>>
    /\ \E context \in DrawContexts, shape \in SceneShapes,
          meshes \in SeqUpTo(MeshKinds, MaxMeshes) \cup {ExampleMeshes} :
          ModelLayerReady(context, shape, meshes)

NextModels == DrawModels

SpecModels == InitModels /\ [][NextModels]_vars

\* drawModels on a vector or geojson source whose tiles hold buckets of
\* instances, under a terrain that changes between frames
InitInstanced ==
    /\ ShadowRendererConstructed
    /\ ProjectionsLoaded
    /\ isWebGL2 = TRUE
    /\ _shadowMapDebug = FALSE
    /\ styleOrder = <<>>
    /\ \E context \in InstancedContexts,
          shape \in {sh \in SceneShapes : Len(sh.nodes) = 1} :
          ModelLayerReady(context, shape, <<>>)
    /\ terrain \in Terrains
    /\ buckets \in BucketLists
    /\ lastUpdate = [i \in DOMAIN buckets |-> NeverUpdated]
    /\ painterEnv \in PainterEnvs

NextInstanced ==
    \/ DrawModels
    \/ \E i \in DOMAIN buckets : UpdateModelBucketsElevation(i)
    \/ \E t \in Terrains : SetTerrain(t)

SpecInstanced == InitInstanced /\ [][NextInstanced]_vars

\* A frame of a map whose layers receive shadows: the shadow parameters are
\* updated, the shadow pass is drawn, and the ground and the models of a model
\* layer (meshes of a 'model' source, or instances of the buckets of two tiles)
\* are drawn with the shadows set up for them
ReceiverLights == {l \in Lights : l.kind = "light" /\ l.shadowIntensity = 1 /\ l.polar = 30}
ReceiverTransforms == {t \in Transforms : t.height = 50}
ReceiverBuckets ==
    << FreshBucket("mercator", <<Instances("m2", 64, 1)>>),
       FreshBucket("mercator", <<Instances("m1", 64, 1)>>) >>

InitReceive ==
    /\ ShadowRendererConstructed
    /\ ProjectionsLoaded
    /\ isWebGL2 = TRUE
    /\ _shadowMapDebug = FALSE
    /\ styleOrder = << [type |-> "model", shadowPass |-> TRUE, hidden |-> FALSE,
                        coords |-> 0] >>
    /\ terrain = NoTerrain
    /\ painterEnv \in {e \in PainterEnvs : e.projection = "mercator" /\ e.modelManager}
    /\ \/ /\ \E context \in {c \in DrawContexts : c.opacity = 50 /\ c.loaded},
                shape \in {sh \in SceneShapes : Len(sh.nodes) = 1} :
                ModelLayerReady(context, shape, <<[alphaMode |-> "OPAQUE", centroid |-> 0]>>)
          /\ buckets = <<>>
       \/ /\ \E context \in {c \in InstancedContexts : c.type = "vector"},
                shape \in {sh \in SceneShapes : Len(sh.nodes) = 1} :
                ModelLayerReady(context, shape, <<>>)
          /\ buckets = ReceiverBuckets
    /\ lastUpdate = [i \in DOMAIN buckets |-> NeverUpdated]

NextReceive ==
    \/ \E transform \in ReceiverTransforms, directionalLight \in ReceiverLights :
          UpdateShadowParameters(transform, directionalLight)
    \/ \E enabled \in BOOLEAN : SetEnabled(enabled)
    \/ Destroy
    \/ DrawShadowPass
    \/ \E lights \in GroundLights, tiles \in CoveringTiles : DrawGroundShadows(lights, tiles)
    \/ \E unwrappedTileID \in ReceiverTiles, program \in ReceiverPrograms :
          SetupShadows(unwrappedTileID, program)
    \/ \E worldMatrix \in WorldMatrices, program \in ReceiverPrograms :
          SetupShadowsFromMatrix(worldMatrix, program)
    \/ DrawModels

SpecReceive == InitReceive /\ [][NextReceive]_vars

\* createLightMatrix called for a camera that moves at a fixed zoom
InitSnap ==
    /\ ShadowRendererConstructed
    /\ ProjectionsLoaded
    /\ NoInstances
    /\ isWebGL2 = TRUE
    /\ _shadowMapDebug = FALSE
    /\ styleOrder = <<>>
    /\ \E context \in {c \in DrawContexts : c.renderPass = "shadow"},
          shape \in {sh \in SceneShapes : Len(sh.nodes) = 1} :
          ModelLayerReady(context, shape, <<>>)

NextSnap ==
    \E sphereCenter \in SphereCenters, ws \in WorldSizes, radiusPx \in RadiiPx,
       shadowDirection \in ShadowDirections, verticalRangePx \in VerticalRangesPx :
        CreateLightMatrix(sphereCenter, ws, radiusPx, shadowDirection, verticalRangePx)

SpecSnap == InitSnap /\ [][NextSnap]_vars

\* updateShadowParameters over the light directions and the terrains a
\* transform can show: up to
\* MaxDemTiles visible DEM tiles, each with or without dem data and with the
\* root of its min/max tree (metres)
MaxDemTiles == 2
DemTileKinds ==
    [dem : BOOLEAN,
     bounds : { <<-5, 30>>, <<10, 40>>, <<10000, 10500>> }]
TerrainElevations ==
    { [present |-> TRUE, exaggeration |-> e,
       visibleDemTiles |-> [i \in DOMAIN kinds |->
                               [dem |-> kinds[i].dem, min |-> kinds[i].bounds[1],
                                max |-> kinds[i].bounds[2]]]] :
      e \in {1, 2}, kinds \in SeqUpTo(DemTileKinds, MaxDemTiles) }
TerrainTransforms ==
    { [height |-> 50, cameraToCenterDistance |-> 75, elevation |-> elevation] :
      elevation \in TerrainElevations \cup {NoElevation} }

\* shadow-casting lights of every polar angle from straight above to straight
\* below
DirectionLights ==
    { [kind |-> "light", castShadows |-> TRUE, shadowIntensity |-> 1, polar |-> polar] :
      polar \in {0, 30, 60, 75, 76, 90, 120, 180} }

InitTerrain ==
    /\ ShadowRendererConstructed
    /\ ProjectionsLoaded
    /\ NoInstances
    /\ isWebGL2 = TRUE
    /\ _shadowMapDebug = FALSE
    /\ styleOrder = << [type |-> "model", shadowPass |-> TRUE, hidden |-> FALSE,
                        coords |-> 0] >>
    /\ \E context \in {c \in DrawContexts : c.renderPass = "shadow"},
          shape \in {sh \in SceneShapes : Len(sh.nodes) = 1} :
          ModelLayerReady(context, shape, <<>>)

NextTerrain ==
    \/ \E transform \in TerrainTransforms, directionalLight \in ReceiverLights :
          UpdateShadowParameters(transform, directionalLight)
    \/ \E transform \in Transforms, directionalLight \in DirectionLights :
          UpdateShadowParameters(transform, directionalLight)

SpecTerrain == InitTerrain /\ [][NextTerrain]_vars

\* The functions the renderer's module gives its callers between frames:
\* the shadow pass matrices of an updated renderer, and the projections
InitCalls ==
    /\ ShadowRendererConstructed
    /\ ProjectionsLoaded
    /\ NoInstances
    /\ isWebGL2 = TRUE
    /\ _shadowMapDebug = FALSE
    /\ styleOrder = << [type |-> "model", shadowPass |-> TRUE, hidden |-> FALSE,
                        coords |-> 0] >>
    /\ \E context \in {c \in DrawContexts : c.renderPass = "shadow"},
          shape \in {sh \in SceneShapes : Len(sh.nodes) = 1} :
          ModelLayerReady(context, shape, <<>>)

NextCalls ==
    \/ \E transform \in ReceiverTransforms, directionalLight \in ReceiverLights :
          UpdateShadowParameters(transform, directionalLight)
    \/ \E unwrappedId \in ReceiverTiles : CalculateShadowPassMatrixFromTile(unwrappedId)
    \/ \E matrix \in WorldMatrices : CalculateShadowPassMatrixFromMatrix(matrix, FALSE)
    \/ CalculateShadowPassMatrixFromMatrix(NotRead, TRUE)
    \/ \E config \in ProjectionConfigs : GetProjection(config)

SpecCalls == InitCalls /\ [][NextCalls]_vars

-----------------------------------------------------------------------------
(* Claims about the ShadowRenderer, checked under SpecShadow *)

\* the last operation was updateShadowParameters with a directional light
\* whose 'cast-shadows' is not true
UpdatedWithCastShadowsOff(op) ==
    /\ op.name = "updateShadowParameters"
    /\ op.kind = "light"
    /\ op.castShadows # TRUE

\* C5: after updateShadowParameters with a directional light whose
\* cast-shadows is not true, enabled is false, and a drawShadowPass that
\* follows it issues no graphics call at all (no framebuffer bind, no clear,
\* no layer render) and does not fail.
C5_CastShadowsOffDisables ==
    /\ UpdatedWithCastShadowsOff(Summary(lastOp)) => ~_enabled
    /\ (lastOp.name = "drawShadowPass" /\ UpdatedWithCastShadowsOff(lastOp.after))
          => (glLog = <<>> /\ thrown = "none" /\ ~_enabled)

\* C5 witness: such a drawShadowPass has run while cascades from an earlier
\* enabled frame exist and the style has a layer that would be rendered
C5_Witness ==
    /\ lastOp.name = "drawShadowPass"
    /\ UpdatedWithCastShadowsOff(lastOp.after)
    /\ Len(_cascades) = cascadeCount
    /\ isWebGL2
    /\ \E i \in 1..Len(styleOrder) : ~ShadowPassSkipsLayer(styleOrder[i])

\* C6: right after updateShadowParameters, enabled is true exactly when the
\* context is WebGL2, a directional light with properties exists, its
\* cast-shadows is true, its shadow-intensity is > 0 and some layer of
\* style.order has a shadow pass and is not hidden; whatever enabled was before.
C6_EnabledIff ==
    lastOp.name = "updateShadowParameters" =>
        (_enabled <=>
            /\ isWebGL2
            /\ lastOp.directionalLight.kind = "light"
            /\ lastOp.directionalLight.castShadows = TRUE
            /\ lastOp.directionalLight.shadowIntensity > 0
            /\ \E i \in 1..Len(styleOrder) :
                  styleOrder[i].shadowPass /\ ~styleOrder[i].hidden)

\* C6 witness: a call that found enabled true and left it false although the
\* light casts shadows (no layer casts one)
C6_Witness ==
    /\ lastOp.name = "updateShadowParameters"
    /\ lastOp.enabledBefore
    /\ ~_enabled
    /\ isWebGL2
    /\ lastOp.directionalLight.kind = "light"
    /\ lastOp.directionalLight.castShadows = TRUE
    /\ lastOp.directionalLight.shadowIntensity > 0

\* framebuffers created by the calls in log
CreatedFramebuffers(log) ==
    Cardinality({i \in 1..Len(log) : log[i].op = "createFramebuffer"})
CreatedDepthTextures(log) ==
    Cardinality({i \in 1..Len(log) : log[i].op = "createDepthTexture"})

\* C9: before destroy, framebuffers and depth textures are created only by
\* the first updateShadowParameters call that ends enabled, cascadeCount of
\* each, and by no later call, also after shadows were disabled and enabled
\* again.
C9_CascadesAllocatedOnce ==
    destroyCalls = 0 =>
        /\ gpuCreated.framebuffers = (IF hadEnabledUpdate THEN cascadeCount ELSE 0)
        /\ gpuCreated.depthTextures = gpuCreated.framebuffers
        /\ lastOp.name = "updateShadowParameters" =>
              LET first == _enabled /\ ~lastOp.hadEnabledUpdate
              IN  /\ CreatedFramebuffers(glLog) = (IF first THEN cascadeCount ELSE 0)
                  /\ CreatedDepthTextures(glLog) = (IF first THEN cascadeCount ELSE 0)
        /\ lastOp.name # "updateShadowParameters" => CreatedFramebuffers(glLog) = 0

\* C9 witness: shadows were enabled, disabled and are enabled again by a call
\* that created nothing
C9_Witness ==
    /\ destroyCalls = 0
    /\ lastOp.name = "updateShadowParameters"
    /\ _enabled
    /\ ~lastOp.enabledBefore
    /\ lastOp.hadEnabledUpdate
    /\ glLog = <<>>
    /\ gpuCreated.framebuffers = cascadeCount

\* what every enabled updateShadowParameters leaves in the cascades, apart
\* from the order of near and far of cascade 0 (1/200 units)
CascadeRangesFromSplit ==
    LET height == lastOp.transform.height
        c2c    == lastOp.transform.cameraToCenterDistance
        split  == 300 * c2c
        cutoff == 3 * split
    IN  /\ Len(_cascades) = cascadeCount
        /\ _cascades[1].matrix.near = 4 * height
        /\ _cascades[1].matrix.far = split
        /\ _cascades[1].far = split
        /\ _cascades[2].matrix.near = split
        /\ _cascades[2].matrix.far = cutoff
        /\ _cascades[2].far = cutoff
        /\ _cascades[2].matrix.near <= _cascades[2].matrix.far

\* C10 as claimed: after every enabled updateShadowParameters cascade 0 covers
\* [height/50, split], cascade 1 covers [split, cutoff], split =
\* 1.5 * cameraToCenterDistance, cutoff = 3 * split, and each range has
\* near <= far for every height and cameraToCenterDistance.
C10_AsClaimed ==
    (lastOp.name = "updateShadowParameters" /\ _enabled) =>
        /\ CascadeRangesFromSplit
        /\ _cascades[1].matrix.near <= _cascades[1].matrix.far

\* C10 amended: the same bounds, and near <= far for cascade 1 always but for
\* cascade 0 exactly when height/50 <= 1.5 * cameraToCenterDistance.
C10_CascadeRanges ==
    (lastOp.name = "updateShadowParameters" /\ _enabled) =>
        /\ CascadeRangesFromSplit
        /\ (_cascades[1].matrix.near <= _cascades[1].matrix.far
              <=> lastOp.transform.height
                     <= 75 * lastOp.transform.cameraToCenterDistance)

\* C10 witness: an enabled update whose cascade 0 has near > far
C10_Witness ==
    /\ lastOp.name = "updateShadowParameters"
    /\ _enabled
    /\ _cascades[1].matrix.near > _cascades[1].far
    /\ _cascades[2].matrix.near < _cascades[2].far

-----------------------------------------------------------------------------
(* Claims about drawModels: traversal, sorting and draw order *)

\* drawModels went down the path that draws the meshes of the models
DrewModelMeshes == lastOp.name = "drawModels" /\ lastOp.path = "meshes"

\* the program.draw calls of a log, in order
Draws(log) == SelectSeq(log, LAMBDA e : e.op = "draw")

\* the draws of blended and of other meshes in a log, in order
TransparentDraws(log) == SelectSeq(Draws(log), LAMBDA e : e.alphaMode = "BLEND")
OpaqueDraws(log) == SelectSeq(Draws(log), LAMBDA e : e.alphaMode # "BLEND")

\* x >= y for fractions with positive denominators
FractionGeq(x, y) == x[1] * y[2] >= y[1] * x[2]

\* C1: the blended meshes are drawn in descending order of depth: for all
\* positions i < j of the transparent draws, depth[i] >= depth[j].
C1_TransparentDescending ==
    DrewModelMeshes =>
        LET draws == TransparentDraws(glLog)
        IN  \A i, j \in DOMAIN draws :
                i < j => FractionGeq(draws[i].depth, draws[j].depth)

\* three blended meshes of distinct depths were drawn, and not in the order
\* in which the traversal met them
C1_Witness ==
    /\ DrewModelMeshes
    /\ LET draws == TransparentDraws(glLog)
       IN  /\ Len(draws) = 3
           /\ draws[1].depth # draws[2].depth /\ draws[2].depth # draws[3].depth
           /\ draws[1].mesh > draws[2].mesh

\* the meshes of the model source, of all nodes
SourceMeshes(source) ==
    UNION { {source.nodes[n].meshes[k] : k \in DOMAIN source.nodes[n].meshes} :
            n \in DOMAIN source.nodes }

\* the nodes below the root nodes of a model (the tree is at most as deep as
\* there are nodes)
RECURSIVE NodesBelow(_, _, _)
NodesBelow(nodes, reached, steps) ==
    IF steps = 0 THEN reached
    ELSE NodesBelow(nodes,
                    reached \cup UNION { {nodes[n].children[c] : c \in DOMAIN nodes[n].children}
                                         : n \in reached },
                    steps - 1)

\* the projected centroid depths of a mesh: z of its centroid transformed by
\* the worldViewProjection of each model and node that hold it
ProjectedCentroidDepths(source, projectionMatrix, mesh) ==
    { TransformMat4Z(mesh.centroid,
                     MatMul(projectionMatrix,
                            MatMul(source.models[m].matrix, source.nodes[n].matrix))) :
      <<m, n>> \in { <<m, n>> \in (DOMAIN source.models) \X (DOMAIN source.nodes) :
                     /\ n \in NodesBelow(source.nodes,
                                         {source.models[m].nodes[r] :
                                             r \in DOMAIN source.models[m].nodes},
                                         Len(source.nodes))
                     /\ \E k \in DOMAIN source.nodes[n].meshes :
                           source.nodes[n].meshes[k] = mesh } }

\* the ids of the meshes drawn
DrawnMeshes(log) == {Draws(log)[k].mesh : k \in DOMAIN Draws(log)}

\* the blended meshes of the source
BlendedMeshes(source) == {mesh \in SourceMeshes(source) : mesh.alphaMode = "BLEND"}

\* C2 as the specification has it: a blended mesh whose projected centroid
\* depth is >= 0 is never drawn, and only meshes of depth < 0 are recorded.
C2_AsClaimed ==
    DrewModelMeshes =>
        \A mesh \in BlendedMeshes(modelSource) :
            \A depth \in ProjectedCentroidDepths(modelSource, projMatrix, mesh) :
                /\ FractionGeq(depth, <<0, 1>>) => mesh.id \notin DrawnMeshes(glLog)
                /\ mesh.id \in DrawnMeshes(glLog) => ~FractionGeq(depth, <<0, 1>>)

\* C2 (amended): a blended mesh whose projected centroid depth is <= 0 is
\* culled by prepareMeshes and never drawn; the meshes of depth > 0, and only
\* those, are recorded with that depth and drawn.
C2_CulledAtOrBelowZero ==
    DrewModelMeshes =>
        /\ \A mesh \in BlendedMeshes(modelSource) :
              \A depth \in ProjectedCentroidDepths(modelSource, projMatrix, mesh) :
                 mesh.id \in DrawnMeshes(glLog) <=> ~FractionGeq(<<0, 1>>, depth)
        /\ \A k \in DOMAIN TransparentDraws(glLog) :
              LET draw == TransparentDraws(glLog)[k]
              IN  /\ ~FractionGeq(<<0, 1>>, draw.depth)
                  /\ \E mesh \in BlendedMeshes(modelSource) :
                        /\ mesh.id = draw.mesh
                        /\ draw.depth \in
                              ProjectedCentroidDepths(modelSource, projMatrix, mesh)

\* of three blended meshes, one of depth < 0 and one of depth 0 were culled
\* and one of depth > 0 was drawn
C2_Witness ==
    /\ DrewModelMeshes
    /\ Len(TransparentDraws(glLog)) = 1
    /\ \E a, b, c \in BlendedMeshes(modelSource) :
          /\ ProjectedCentroidDepths(modelSource, projMatrix, a) = {<<-1, 1>>}
          /\ ProjectedCentroidDepths(modelSource, projMatrix, b) = {<<0, 1>>}
          /\ ProjectedCentroidDepths(modelSource, projMatrix, c) = {<<5, 1>>}
          /\ DrawnMeshes(glLog) = {c.id}

\* the positions in the log of the draws of mesh id
DrawsOfMesh(log, id) == {k \in DOMAIN log : log[k].op = "draw" /\ log[k].mesh = id}

\* C3: with layer opacity < 1 every opaque mesh is drawn exactly twice, once
\* with color writes disabled and once with the 3D stencil mode and the color
\* mode of the render pass; with opacity 1 every opaque mesh is drawn exactly
\* once, with the stencil disabled.
C3_OpaquePasses ==
    DrewModelMeshes =>
        \A mesh \in SourceMeshes(modelSource) \ BlendedMeshes(modelSource) :
            LET at == DrawsOfMesh(glLog, mesh.id)
            IN  IF modelOpacity < 100
                THEN /\ Cardinality(at) = 2
                     /\ \E k \in at : glLog[k].colorMode = "disabled"
                     /\ \E k \in at : /\ glLog[k].stencilMode = "stencilModeFor3D"
                                      /\ glLog[k].colorMode = "colorModeForRenderPass"
                ELSE /\ Cardinality(at) = 1
                     /\ \A k \in at : glLog[k].stencilMode = "disabled"

\* a translucent layer drew two opaque meshes in two passes
C3_Witness ==
    /\ DrewModelMeshes
    /\ modelOpacity < 100
    /\ Cardinality(SourceMeshes(modelSource) \ BlendedMeshes(modelSource)) = 2
    /\ Len(OpaqueDraws(glLog)) = 4

\* the meshes of the source are those of the example: 2 opaque meshes and 3
\* blended meshes at depths 5, 2, 8, in one node
IsExampleScene ==
    /\ projMatrix = IdentityMat
    /\ Len(modelSource.models) = 1 /\ modelSource.models[1].matrix = IdentityMat
    /\ Len(modelSource.nodes) = 1 /\ modelSource.nodes[1].matrix = IdentityMat
    /\ Len(modelSource.nodes[1].meshes) = 5
    /\ \A k \in 1..5 : /\ modelSource.nodes[1].meshes[k].alphaMode = ExampleMeshes[k].alphaMode
                       /\ modelSource.nodes[1].meshes[k].centroid = ExampleMeshes[k].centroid

\* C4: every draw of an opaque mesh precedes every draw of a transparent mesh
\* and the transparent meshes are drawn farthest first: the example of 2
\* opaque meshes and 3 transparent meshes at depths 5, 2, 8 gives the opaque
\* draws and then the transparent draws at depths 8, 5, 2. In two-pass mode
\* all color-disabled opaque draws precede all stencil-masked opaque draws.
C4_DrawOrder ==
    DrewModelMeshes =>
        /\ \A i, j \in DOMAIN glLog :
              /\ glLog[i].op = "draw" /\ glLog[j].op = "draw"
              /\ glLog[i].alphaMode # "BLEND" /\ glLog[j].alphaMode = "BLEND"
              => i < j
        /\ \A i, j \in DOMAIN glLog :
              /\ glLog[i].op = "draw" /\ glLog[j].op = "draw"
              /\ glLog[i].alphaMode = "BLEND" /\ glLog[j].alphaMode = "BLEND"
              /\ ~FractionGeq(glLog[j].depth, glLog[i].depth)
              => i < j
        /\ \A i, j \in DOMAIN glLog :
              /\ glLog[i].op = "draw" /\ glLog[j].op = "draw"
              /\ glLog[i].alphaMode # "BLEND" /\ glLog[j].alphaMode # "BLEND"
              /\ glLog[i].colorMode = "disabled"
              /\ glLog[j].stencilMode = "stencilModeFor3D"
              => i < j
        /\ IsExampleScene =>
              LET draws == Draws(SelectSeq(glLog, LAMBDA e :
                               e.op = "draw" /\ e.colorMode # "disabled"))
              IN  /\ Len(draws) = 5
                  /\ {draws[1].mesh, draws[2].mesh} = {1, 4}
                  /\ <<draws[3].depth, draws[4].depth, draws[5].depth>>
                        = << <<8, 1>>, <<5, 1>>, <<2, 1>> >>

\* the example scene was drawn in two-pass mode
C4_Witness ==
    /\ DrewModelMeshes
    /\ IsExampleScene
    /\ modelOpacity < 100
    /\ Len(Draws(glLog)) = 7

-----------------------------------------------------------------------------
(* Claims about the instanced path: elevation memo and stride assertion *)

\* the calls of a log that sample an elevation, write a lane or upload, for
\* bucket i
ElevationWork(log, i) ==
    {k \in DOMAIN log : /\ log[k].op \in {"getElevationAt", "writeLane", "upload"}
                        /\ log[k].a[1] = i}

\* bucket i went through updateModelBucketsElevation before, the call
\* returned, and terrain exaggeration and backing DEM tile are as they were
UpdatedBeforeUnderSameTerrain(previous, i) ==
    /\ i \in DOMAIN previous
    /\ previous[i].called
    /\ previous[i].returned
    /\ previous[i].exaggeration = TerrainExaggeration(terrain)
    /\ previous[i].demTile = BackingDEMTile(terrain)

\* C7: a second updateModelBucketsElevation on the same bucket with unchanged
\* terrain exaggeration and the same backing DEM tile makes no getElevationAt
\* call, writes no lane of the instance buffer and uploads nothing.
C7_ElevationMemoized ==
    lastOp.name \in {"updateModelBucketsElevation", "drawModels"} =>
        \A i \in DOMAIN buckets :
            UpdatedBeforeUnderSameTerrain(lastOp.previous, i) =>
                ElevationWork(glLog, i) = {}

\* the second of two calls under an exaggerated terrain with DEM data, on a
\* bucket with instances: the sampler was created again and not used
C7_Witness ==
    /\ lastOp.name = "updateModelBucketsElevation"
    /\ UpdatedBeforeUnderSameTerrain(lastOp.previous, lastOp.bucket)
    /\ TerrainExaggeration(terrain) > 0
    /\ BackingDEMTile(terrain) # "undefined"
    /\ \E m \in DOMAIN buckets[lastOp.bucket].instancesPerModel :
          buckets[lastOp.bucket].instancesPerModel[m].length > 0
    /\ \E k \in DOMAIN glLog : glLog[k].op = "DEMSampler.create"
    /\ thrown = "none"

\* the indexed accesses into an instancedDataArray
IsLaneAccess(e) == e.op \in {"readLane", "writeLane", "subRange"}

\* C8: every indexed access into an instancedDataArray (the elevation reads
\* and writes of updateModelBucketsElevation, the per-instance sub-range of
\* drawInstancedNode) comes after an assertion, in the same loop body, that
\* bytesPerElement is 64; on a buffer of another stride the assertion throws
\* before any lane of it is read or written.
C8_StrideAsserted ==
    /\ \A k \in DOMAIN glLog :
          IsLaneAccess(glLog[k]) =>
              \E j \in 1..(k - 1) :
                 /\ glLog[j].op = "assertStride"
                 /\ glLog[j].a = glLog[k].a
                 /\ glLog[j].b = 64
                 /\ \A n \in (j + 1)..(k - 1) :
                       glLog[n].op = "assertStride" => glLog[n].a = glLog[k].a
    /\ \A j \in DOMAIN glLog :
          glLog[j].op = "assertStride" /\ glLog[j].b # 64 =>
              /\ j + 1 = Len(glLog)
              /\ glLog[j + 1].op = "throw"
              /\ thrown = "AssertionError"
              /\ \A k \in DOMAIN glLog :
                    IsLaneAccess(glLog[k]) =>
                        <<glLog[k].a[1], glLog[k].a[2]>> # <<glLog[j].a[1], glLog[j].a[2]>>

\* lanes of a buffer of stride 64 were accessed, then the assertion on a
\* buffer of stride 32 threw
C8_Witness ==
    /\ thrown = "AssertionError"
    /\ \E k \in DOMAIN glLog : glLog[k].op = "writeLane"
    /\ \E j \in DOMAIN glLog : glLog[j].op = "assertStride" /\ glLog[j].b = 32

-----------------------------------------------------------------------------
(* Claims about receiving shadows, checked under SpecReceive *)

\* uniforms holds, as its light matrices, the matrices of the cascades
\* multiplied by matrix and nothing else
LightMatricesAre(uniforms, cascades, matrix) ==
    /\ uniforms.u_light_matrix_0.kind = "product"
    /\ uniforms.u_light_matrix_0.left = cascades[1].matrix
    /\ uniforms.u_light_matrix_0.right = matrix
    /\ uniforms.u_light_matrix_1.kind = "product"
    /\ uniforms.u_light_matrix_1.left = cascades[2].matrix
    /\ uniforms.u_light_matrix_1.right = matrix

\* the two calls before call j of the log bind the textures of the cascades
\* to the two shadow-map slots
BindsCascadeTextures(log, j, cascades) ==
    /\ j >= 3
    /\ log[j - 2] = GlCall("bindShadowMap", cascades[1].texture, 0)
    /\ log[j - 1] = GlCall("bindShadowMap", cascades[2].texture, 1)

\* C11: what setupShadows and setupShadowsFromMatrix push to a program depends
\* only on the call's tile or matrix and on the cascades: the light matrices
\* pushed are the cascades' matrices multiplied by the matrix of this call and
\* the textures bound are the cascades' textures, whatever calls came before
\* with other arguments or programs (also inside drawGroundShadows and
\* drawModels, which set the shadows up once per tile), so a repeated call
\* pushes the same values.
C11_SetupShadowsIndependent ==
    /\ (lastOp.name \in {"setupShadows", "setupShadowsFromMatrix"}
            /\ _enabled /\ thrown = "none")
          => /\ Len(glLog) = 3
             /\ glLog[3].op = "setShadowUniformValues"
             /\ glLog[3].a = lastOp.program
             /\ LightMatricesAre(glLog[3].b, _cascades, lastOp.matrix)
             /\ glLog[3].b = [_uniformValues EXCEPT
                                 !.u_light_matrix_0 = glLog[3].b.u_light_matrix_0,
                                 !.u_light_matrix_1 = glLog[3].b.u_light_matrix_1]
    /\ \A j \in 1..Len(glLog) :
          glLog[j].op = "setShadowUniformValues" =>
             /\ BindsCascadeTextures(glLog, j, _cascades)
             /\ lastOp.name = "drawGroundShadows" =>
                   /\ glLog[j + 1].op = "drawGroundShadow"
                   /\ LightMatricesAre(glLog[j].b, _cascades, PosMatrix(glLog[j + 1].a))
             /\ lastOp.name = "drawModels" =>
                   /\ glLog[j - 3].op = "useProgram"
                   /\ LightMatricesAre(glLog[j].b, _cascades,
                                       PosMatrix(glLog[j - 3].b[1]))

\* C11 witness: an enabled setupShadows right after a setupShadowsFromMatrix
\* that was given another program
C11_Witness ==
    /\ lastOp.name = "setupShadows"
    /\ lastOp.after.name = "setupShadowsFromMatrix"
    /\ lastOp.after.program # lastOp.program
    /\ _enabled
    /\ thrown = "none"
    /\ Len(glLog) = 3

\* C16: while enabled is false, drawShadowPass, drawGroundShadows,
\* setupShadows and setupShadowsFromMatrix make no graphics call at all (no
\* framebuffer or shadow texture bound, no uniforms pushed, no draw), do not
\* fail, and leave the cascades, the GPU resources and the uniform values as
\* they were.
C16_DisabledBindsNothing ==
    [][(~_enabled /\ lastOp'.name \in {"drawShadowPass", "drawGroundShadows",
                                        "setupShadows", "setupShadowsFromMatrix"})
          => /\ glLog' = <<>>
             /\ thrown' = "none"
             /\ _cascades' = _cascades
             /\ gpuCreated' = gpuCreated
             /\ gpuDestroyed' = gpuDestroyed
             /\ _uniformValues' = _uniformValues
             /\ ~_enabled']_vars

\* C16 witness: drawGroundShadows has run disabled, with both lights and
\* covering tiles, while the cascades of an earlier enabled frame exist
C16_Witness ==
    /\ lastOp.name = "drawGroundShadows"
    /\ ~_enabled
    /\ Len(_cascades) = cascadeCount
    /\ lastOp.lights.directionalLight /\ lastOp.lights.ambientLight
    /\ lastOp.tiles # <<>>
    /\ glLog = <<>>

\* call k of the log is a program.draw of a mesh issued by drawModels
IsMeshDraw(log, k) == log[k].op = "draw" \/ log[k].op = "drawInstance"

\* the shadow uniforms are pushed to the program of draw k after that program
\* was selected and before the draw
ShadowsPushedBefore(log, k) ==
    \E j \in 1..(k - 1) :
        /\ log[j].op = "setShadowUniformValues"
        /\ log[j].a = log[k].program
        /\ \E u \in 1..(j - 1) :
              /\ log[u].op = "useProgram"
              /\ \A n \in (u + 1)..(k - 1) : log[n].op # "useProgram"

\* C20 (as claimed): every mesh draw of drawModels, on the mesh path and on
\* the instanced path, is preceded by a push of the shadow uniforms to its
\* program when shadows are enabled and the pass is not 'shadow'.
C20_ShadowsPushedBeforeDraw ==
    (lastOp.name = "drawModels" /\ painterEnv.shadowRenderer /\ _enabled
        /\ renderPass # "shadow")
       => \A k \in 1..Len(glLog) : IsMeshDraw(glLog, k) => ShadowsPushedBefore(glLog, k)

\* what the code does: the draws of drawInstancedNode are preceded by the
\* push, the draws of drawMesh are preceded by none
C20_OnlyInstancedDrawsReceive ==
    (lastOp.name = "drawModels" /\ painterEnv.shadowRenderer /\ _enabled)
       => \A k \in 1..Len(glLog) :
             /\ glLog[k].op = "drawInstance" => ShadowsPushedBefore(glLog, k)
             /\ glLog[k].op = "draw" =>
                   \A j \in 1..Len(glLog) : glLog[j].op # "setShadowUniformValues"

\* C20 witness: drawModels drew a mesh of a 'model' source while shadows
\* were enabled and cascades existed
C20_Witness ==
    /\ lastOp.name = "drawModels"
    /\ lastOp.path = "meshes"
    /\ painterEnv.shadowRenderer
    /\ _enabled
    /\ Len(_cascades) = cascadeCount
    /\ \E k \in 1..Len(glLog) : glLog[k].op = "draw"

-----------------------------------------------------------------------------
(* Claims about the instanced path in other projections, checked under
   SpecInstanced *)

\* C13: when drawModels takes the instanced path and the projection of the
\* transform is not 'mercator', its only call is the warnOnce about that
\* projection: it draws nothing, updates the elevation of no bucket, pushes no
\* shadow state and raises no error.
C13_OtherProjectionSkipped ==
    [][(lastOp'.name = "drawModels" /\ lastOp'.path = "instanced"
           /\ painterEnv.projection # "mercator")
          => /\ glLog' = <<GlCall("warnOnce", painterEnv.projection, 0)>>
             /\ thrown' = "none"
             /\ buckets' = buckets
             /\ lastUpdate' = lastUpdate]_vars

\* C13 witness: such a drawModels over a bucket of the transform's projection
\* that holds instances of a loaded model, under a terrain that would need an
\* elevation update
C13_Witness ==
    /\ lastOp.name = "drawModels"
    /\ lastOp.path = "instanced"
    /\ painterEnv.projection # "mercator"
    /\ painterEnv.modelManager
    /\ terrain.present /\ terrain.exaggeration > 0 /\ terrain.demTile.dem
    /\ \E i \in DOMAIN buckets :
          /\ buckets[i].present
          /\ buckets[i].projection = painterEnv.projection
          /\ lastUpdate[i] = NeverUpdated
          /\ \E m \in DOMAIN buckets[i].instancesPerModel :
                ModelManagerModels[buckets[i].instancesPerModel[m].modelId].found

\* terrain t asks for an exaggeration but has no DEM tile with data for the
\* bucket's tile
ExaggerationWithoutDem(t) ==
    t.present /\ t.exaggeration > 0 /\ ~(t.demTile.found /\ t.demTile.dem)

\* the elevation lane of every instance of the bucket holds the instance's
\* instancesEvaluatedElevation
ElevationsAreBaseline(bucket) ==
    \A m \in DOMAIN bucket.instancesPerModel :
        LET instances == bucket.instancesPerModel[m]
        IN  \A k \in 0..(instances.length - 1) :
                instances.float32[k * 16 + 6 + 1] =
                    instances.instancesEvaluatedElevation[k + 1]

\* C14: an updateModelBucketsElevation under a terrain whose exaggeration is
\* > 0 but which has no DEM tile with data for the bucket's tile takes the
\* exaggeration as 0: it creates no sampler and samples no elevation, raises
\* no error, leaves validForExaggeration 0 and validForDEMTile undefined, and
\* if it writes elevation lanes, every one of them is the instance's
\* instancesEvaluatedElevation.
C14_NoDemFlattens ==
    [][(lastOp'.name = "updateModelBucketsElevation" /\ ExaggerationWithoutDem(terrain))
          => LET bucket == buckets'[lastOp'.bucket]
             IN  /\ thrown' = "none"
                 /\ \A j \in 1..Len(glLog') :
                       glLog'[j].op \notin {"DEMSampler.create", "getElevationAt", "throw"}
                 /\ bucket.validForExaggeration = 0
                 /\ bucket.validForDEMTile = "undefined"
                 /\ (\E j \in 1..Len(glLog') : glLog'[j].op = "writeLane")
                       => ElevationsAreBaseline(bucket)]_vars

\* C14 witness: such a call on a bucket whose elevations were sampled from a
\* DEM tile before: it has written the lanes back to the baseline
C14_Witness ==
    /\ lastOp.name = "updateModelBucketsElevation"
    /\ ExaggerationWithoutDem(terrain)
    /\ lastOp.previous[lastOp.bucket].returned
    /\ lastOp.previous[lastOp.bucket].demTile # "undefined"
    /\ \E j \in 1..Len(glLog) : glLog[j].op = "writeLane"
    /\ ElevationsAreBaseline(buckets[lastOp.bucket])
    /\ buckets[lastOp.bucket].validForExaggeration = 0

\* C15: a drawModels in a render pass other than 'translucent' (the 'shadow'
\* pass of drawShadowPass included), with model-opacity 0 or on a source that
\* is not loaded makes no call at all (no draw, no elevation update, no
\* upload), raises no error and leaves every bucket as it was.
C15_NothingOutsideTranslucent ==
    [][(lastOp'.name = "drawModels"
           /\ (renderPass # "translucent" \/ modelOpacity = 0 \/ ~modelSource.loaded))
          => /\ glLog' = <<>>
             /\ thrown' = "none"
             /\ buckets' = buckets
             /\ lastUpdate' = lastUpdate
             /\ _uniformValues' = _uniformValues]_vars

\* C15 witness: drawModels has run in the shadow pass over a mercator bucket
\* with instances of a loaded model, under a terrain that would need an
\* elevation update, with visible opacity and a loaded source
C15_Witness ==
    /\ lastOp.name = "drawModels"
    /\ renderPass = "shadow"
    /\ modelOpacity > 0
    /\ modelSource.loaded
    /\ painterEnv.projection = "mercator"
    /\ painterEnv.modelManager
    /\ terrain.present /\ terrain.exaggeration > 0 /\ terrain.demTile.dem
    /\ \E i \in DOMAIN buckets :
          /\ buckets[i].present
          /\ buckets[i].projection = "mercator"
          /\ lastUpdate[i] = NeverUpdated
          /\ \E m \in DOMAIN buckets[i].instancesPerModel :
                ModelManagerModels[buckets[i].instancesPerModel[m].modelId].found

-----------------------------------------------------------------------------
(* Claims about the node matrices of prepareMeshes, checked under SpecModels *)

\* node n of the source holds the mesh with this id
NodeHoldsMesh(source, n, id) ==
    \E q \in 1..Len(source.nodes[n].meshes) : source.nodes[n].meshes[q].id = id

\* the matrices of the nodes from a root of the model down to node n,
\* multiplied onto modelMatrix one after the other
RECURSIVE ChainedMatrices(_, _, _, _)
ChainedMatrices(source, list, modelMatrix, n) ==
    IF list = <<>> THEN {}
    ELSE LET here == MatMul(modelMatrix, source.nodes[Head(list)].matrix)
         IN  (IF Head(list) = n THEN {here}
              ELSE ChainedMatrices(source, source.nodes[Head(list)].children, here, n))
             \cup ChainedMatrices(source, Tail(list), modelMatrix, n)

\* C17: for a node at any depth of the node tree, the nodeModelMatrix that
\* prepareMeshes records for the node's meshes (and drawMesh is given) is the
\* model's root matrix multiplied by node.matrix, whatever the matrices of
\* the node's ancestors and of the nodes visited before it.
C17_NodeMatrixFromRoot ==
    DrewModelMeshes =>
        \A k \in 1..Len(glLog) :
            glLog[k].op = "draw" =>
                \E n \in DOMAIN modelSource.nodes :
                    /\ NodeHoldsMesh(modelSource, n, glLog[k].mesh)
                    /\ glLog[k].nodeModelMatrix =
                          MatMul(modelSource.models[glLog[k].modelIndex + 1].matrix,
                                 modelSource.nodes[n].matrix)

\* C17 witness: a mesh of a grandchild node was drawn, and the chain of its
\* ancestors' matrices would have given another matrix
C17_Witness ==
    /\ DrewModelMeshes
    /\ \E k \in 1..Len(glLog), n \in DOMAIN modelSource.nodes :
          /\ glLog[k].op = "draw"
          /\ NodeHoldsMesh(modelSource, n, glLog[k].mesh)
          /\ \E parent, root \in DOMAIN modelSource.nodes :
                /\ modelSource.nodes[parent].children = <<n>>
                /\ modelSource.nodes[root].children = <<parent>>
          /\ glLog[k].nodeModelMatrix \notin
                ChainedMatrices(modelSource, modelSource.models[1].nodes,
                                modelSource.models[1].matrix, n)

-----------------------------------------------------------------------------
(* Claims about the order of the shadow pass, checked under SpecShadow *)

\* the positions in style.order, from the i-th on, of the layers that have a
\* shadow pass, are not hidden and are of type 'model' or have a coordinate
RECURSIVE ShadowCasters(_, _)
ShadowCasters(order, i) ==
    IF i > Len(order) THEN <<>>
    ELSE (IF order[i].shadowPass /\ ~order[i].hidden
             /\ (order[i].type = "model" \/ order[i].coords > 0)
          THEN <<i>> ELSE <<>>)
         \o ShadowCasters(order, i + 1)

\* the logged call e is the call op with the arguments a and b
IsCall(e, op, a, b) == e.op = op /\ e.a = a /\ e.b = b

\* an enabled drawShadowPass ran to its end
ShadowPassDrawn ==
    lastOp.name = "drawShadowPass" /\ _enabled /\ thrown = "none"

\* C18: an enabled drawShadowPass sets the viewport and then, for cascade 0
\* and after it for cascade 1, binds the cascade's framebuffer, clears it and
\* renders, in the order of style.order, exactly the layers that have a shadow
\* pass, are not hidden and are of type 'model' or have a tile coordinate,
\* each with painter.currentShadowCascade equal to the cascade;
\* currentShadowCascade is 0 when the pass has ended.
C18_CascadeOrder ==
    ShadowPassDrawn =>
        LET casters == ShadowCasters(styleOrder, 1)
            n == Len(casters)
            start(c) == 1 + c * (n + 2)
        IN  /\ Len(glLog) = 1 + cascadeCount * (n + 2)
            /\ glLog[1].op = "viewport"
            /\ \A c \in 0..(cascadeCount - 1) :
                  /\ IsCall(glLog[start(c) + 1], "bindFramebuffer",
                            _cascades[c + 1].framebuffer, c)
                  /\ glLog[start(c) + 2].op = "clear"
                  /\ \A q \in 1..n :
                        IsCall(glLog[start(c) + 2 + q], "renderLayer", casters[q], c)
            /\ currentShadowCascade = 0

\* C18 witness: such a pass over a style of two layers of which it renders
\* one, a 'model' layer without tile coordinates
C18_Witness ==
    /\ ShadowPassDrawn
    /\ Len(styleOrder) = 2
    /\ Len(ShadowCasters(styleOrder, 1)) = 1
    /\ \E i \in 1..Len(styleOrder) :
          /\ styleOrder[i].type = "model" /\ styleOrder[i].coords = 0
          /\ \E j \in 1..Len(glLog) : IsCall(glLog[j], "renderLayer", i, 1)

\* the cascade whose framebuffer call j - 1 of the log has bound
BoundCascade(log, j, cascades) == cascades[log[j - 1].b + 1]

\* C19 (as claimed): each cascade's clear of drawShadowPass clears depth, and
\* it clears colour only when painter._shadowMapDebug is on.
C19_AsClaimed ==
    lastOp.name = "drawShadowPass" =>
        \A j \in 1..Len(glLog) :
            glLog[j].op = "clear" =>
                /\ glLog[j].b
                /\ glLog[j].a => _shadowMapDebug

\* C19 (amended): each cascade's clear of drawShadowPass is given a depth and
\* is given a colour whether painter._shadowMapDebug is on or not; the
\* framebuffer it clears has a colour attachment exactly when
\* _shadowMapDebug was on as the cascades were allocated.
C19_ClearAlwaysGivenColor ==
    lastOp.name = "drawShadowPass" =>
        \A j \in 1..Len(glLog) :
            glLog[j].op = "clear" =>
                /\ glLog[j].b
                /\ glLog[j].a
                /\ glLog[j - 1].op = "bindFramebuffer"
                /\ BoundCascade(glLog, j, _cascades).colorAttachment <=> _shadowMapDebug

\* C19 witness: a drawShadowPass has cleared both cascades with debug
\* visualization off
C19_Witness ==
    /\ ShadowPassDrawn
    /\ ~_shadowMapDebug
    /\ Len(SelectSeq(glLog, LAMBDA e : e.op = "clear")) = cascadeCount

-----------------------------------------------------------------------------
(* Claims about the texel snapping of createLightMatrix, checked under
   SpecSnap *)

\* where the light matrix m puts the quantized centre of the sphere, in texels
SnappedCenter(sphereCenter, ws, m) ==
    ProjectedPoint(AlignedCenter(sphereCenter, ws), m)

\* the sphere of the call before was centred less than one texel of the
\* shadow map away (a texel is radiusPx / halfResolution pixels wide)
MovedBySubTexel(op) ==
    /\ op.previous.called
    /\ op.previous.sphereCenter # op.sphereCenter
    /\ RatLess(RatMul(RatAbs(RatSub(op.sphereCenter, op.previous.sphereCenter)), op.ws),
               Fraction(op.radiusPx, HalfResolution))

\* C12 (as claimed): for a camera at P and at P + e, e less than a texel of the
\* shadow map, the two snapped light matrices put the quantized centre of the
\* sphere on the same integer texel.
C12_AsClaimed ==
    (lastOp.name = "createLightMatrix" /\ MovedBySubTexel(lastOp))
       => LET now == SnappedCenter(lastOp.sphereCenter, lastOp.ws, lastOp.lightWorldToClip)
              before == SnappedCenter(lastOp.previous.sphereCenter, lastOp.ws,
                                      lastOp.previous.lightWorldToClip)
          IN  now[2] = 1 /\ before[2] = 1 /\ now = before

\* C12 (amended): the light matrix createLightMatrix returns puts the
\* quantized centre of the sphere on an integer texel: its projection has no
\* fractional pixel offset once the truncation translation is prepended.
C12_SnappedOntoTexel ==
    lastOp.name = "createLightMatrix" =>
        SnappedCenter(lastOp.sphereCenter, lastOp.ws, lastOp.lightWorldToClip)[2] = 1

\* C12 witness: a call after a move of less than a texel, for a centre whose
\* quantized point did not project onto a texel before the snapping
C12_Witness ==
    /\ lastOp.name = "createLightMatrix"
    /\ MovedBySubTexel(lastOp)
    /\ SnappedCenter(lastOp.sphereCenter, lastOp.ws,
                     LightWorldToClip(lastOp.sphereCenter, lastOp.ws, lastOp.radiusPx))[2] # 1
    /\ SnappedCenter(lastOp.sphereCenter, lastOp.ws, lastOp.lightWorldToClip)[2] = 1

-----------------------------------------------------------------------------
(* Claims about the assertion of drawMesh, checked under SpecModels *)

\* C23: the assertion opacity > 0 of drawMesh holds on every call that
\* drawModels makes: whatever the model-opacity of the layer, drawModels
\* returns before any drawMesh or calls drawMesh with an opacity > 0 only, so
\* no AssertionError is raised and every draw has an opacity > 0.
C23_OpacityAssertionHolds ==
    lastOp.name = "drawModels" =>
        /\ thrown # "AssertionError"
        /\ \A k \in 1..Len(glLog) :
              /\ glLog[k].op # "throw"
              /\ glLog[k].op = "draw" => (glLog[k].opacity > 0 /\ modelOpacity > 0)
        /\ modelOpacity = 0 => glLog = <<>>

\* C23 witness: drawModels has run in the translucent pass with
\* model-opacity 0 on a loaded source that holds meshes
C23_Witness ==
    /\ lastOp.name = "drawModels"
    /\ renderPass = "translucent"
    /\ modelOpacity = 0
    /\ modelSource.loaded
    /\ \E n \in DOMAIN modelSource.nodes : modelSource.nodes[n].meshes # <<>>
    /\ glLog = <<>>

-----------------------------------------------------------------------------
(* Claims about the vertical terrain range, checked under SpecTerrain *)

\* the visible DEM tiles of an elevation that have dem data
TilesWithData(elevation) ==
    { i \in DOMAIN elevation.visibleDemTiles : elevation.visibleDemTiles[i].dem }

\* the range the claim gives: 0 without terrain or without a tile with data,
\* else (greatest tile maximum - least tile minimum) * exaggeration
ClaimedVerticalRange(elevation) ==
    IF ~elevation.present \/ TilesWithData(elevation) = {} THEN 0
    ELSE LET tiles == elevation.visibleDemTiles
             top == CHOOSE m \in {tiles[i].max : i \in TilesWithData(elevation)} :
                        \A i \in TilesWithData(elevation) : tiles[i].max <= m
             bottom == CHOOSE m \in {tiles[i].min : i \in TilesWithData(elevation)} :
                        \A i \in TilesWithData(elevation) : tiles[i].min >= m
         IN  (top - bottom) * elevation.exaggeration

\* an updateShadowParameters that left the renderer enabled has given every
\* cascade its light matrix
UpdatedEnabled == lastOp.name = "updateShadowParameters" /\ _enabled

\* C24 (as claimed): the vertical range updateShadowParameters hands to
\* createLightMatrix is 0 without terrain or without a visible DEM tile with
\* data, and else (greatest tile maximum - least tile minimum) * exaggeration,
\* whatever the minimums and maximums of the tiles.
C24_VerticalRange ==
    UpdatedEnabled =>
        \A i \in 1..Len(_cascades) :
            _cascades[i].matrix.verticalRange =
                ClaimedVerticalRange(lastOp.transform.elevation)

\* what the code does: the claimed range whenever some tile with data has a
\* minimum below 10000, and 0 when every tile with data has a minimum of
\* 10000 or more
C24_RangeBelowSentinel ==
    UpdatedEnabled =>
        LET elevation == lastOp.transform.elevation
            low == \E i \in TilesWithData(elevation) :
                       elevation.visibleDemTiles[i].min < 10000
        IN  \A i \in 1..Len(_cascades) :
                _cascades[i].matrix.verticalRange =
                    IF elevation.present /\ TilesWithData(elevation) # {} /\ ~low
                    THEN 0
                    ELSE ClaimedVerticalRange(elevation)

\* C24 witness: an update under a terrain with a visible DEM tile whose data
\* lies between 10000 and 10500 metres
C24_Witness ==
    /\ UpdatedEnabled
    /\ Len(_cascades) = cascadeCount
    /\ lastOp.transform.elevation.present
    /\ \E i \in TilesWithData(lastOp.transform.elevation) :
          lastOp.transform.elevation.visibleDemTiles[i].min >= 10000
    /\ ClaimedVerticalRange(lastOp.transform.elevation) > 0

-----------------------------------------------------------------------------
(* Claims about the shadow direction and the far plane of the light's
   projection, checked under SpecTerrain and SpecSnap *)

\* C28: whatever the direction of the directional light, the shadow direction
\* updateShadowParameters passes to createLightMatrix has a polar angle in
\* [0, 75] degrees and a z component of at least cos 75 degrees, above 0, and
\* the far plane createLightMatrix divides by it is a finite number.
C28_PolarClamped ==
    UpdatedEnabled =>
        \A i \in 1..Len(_cascades) :
            LET m == _cascades[i].matrix
            IN  /\ m.shadowDirection.polar \in 0..MaxPolarCoordinate
                /\ m.shadowDirection.z >= CosThousandths(MaxPolarCoordinate)
                /\ m.shadowDirection.z > 0
                /\ m.orthographicFar.finite

\* C28 witness: an update with a light at or below the horizon (polar angle of
\* 90 degrees or more) under a terrain with a vertical range
C28_Witness ==
    /\ UpdatedEnabled
    /\ lastOp.directionalLight.polar >= 90
    /\ Len(_cascades) = cascadeCount
    /\ _cascades[1].matrix.shadowDirection.polar = MaxPolarCoordinate
    /\ _cascades[1].matrix.verticalRange > 0

-----------------------------------------------------------------------------
(* Claims about the recomputed elevations, checked under SpecInstanced *)

\* a lane in halves truncated to an integer
TruncatedLane(v) == IF v >= 0 THEN v \div 2 ELSE -((-v) \div 2)

\* the step is an updateModelBucketsElevation of bucket i that recomputed the
\* elevations and uploaded the bucket
Recomputes(i) ==
    /\ lastOp'.name = "updateModelBucketsElevation"
    /\ lastOp'.bucket = i
    /\ \E k \in DOMAIN glLog' : glLog'[k].op = "upload"

\* C22: when updateModelBucketsElevation recomputes, every instance k of every
\* model of the bucket gets lane k*16+6 = exaggeration * getElevationAt(x, y)
\* + instancesEvaluatedElevation[k], x and y being lanes k*16 and k*16+1
\* truncated to integers; every other lane is left as it was; the
\* exaggeration and the DEM tile used are recorded in validForExaggeration and
\* validForDEMTile; and the bucket is marked not uploaded and uploaded once,
\* after every lane is written.
C22_ElevationsRecomputed ==
    [][\A i \in DOMAIN buckets :
          Recomputes(i) =>
              LET exaggeration == IF BackingDEMTile(terrain) = "undefined"
                                  THEN 0 ELSE TerrainExaggeration(terrain)
                  before == buckets[i].instancesPerModel
                  after  == buckets'[i].instancesPerModel
              IN  /\ DOMAIN after = DOMAIN before
                  /\ \A m \in DOMAIN before :
                        /\ Len(after[m].float32) = Len(before[m].float32)
                        /\ \A k \in 0..(before[m].length - 1) :
                              after[m].float32[k * 16 + 7] =
                                  (IF exaggeration = 0 THEN 0
                                   ELSE exaggeration *
                                        ElevationAt(BackingDEMTile(terrain),
                                            TruncatedLane(before[m].float32[k * 16 + 1]),
                                            TruncatedLane(before[m].float32[k * 16 + 2])))
                                  + before[m].instancesEvaluatedElevation[k + 1]
                        /\ \A n \in DOMAIN before[m].float32 :
                              n % 16 # 7 => after[m].float32[n] = before[m].float32[n]
                  /\ buckets'[i].validForExaggeration = exaggeration
                  /\ buckets'[i].validForDEMTile =
                        (IF exaggeration = 0 THEN "undefined" ELSE BackingDEMTile(terrain))
                  /\ ~buckets'[i].uploaded
                  /\ glLog'[Len(glLog')].op = "upload"
                  /\ \A k \in 1..(Len(glLog') - 1) : glLog'[k].op # "upload"
    ]_vars

\* C22 witness: a bucket of two instances recomputed under a terrain of
\* exaggeration 2 with DEM data, its lanes 1 (negative, truncated toward 0)
\* read and its lanes 6 changed
C22_Witness ==
    /\ lastOp.name = "updateModelBucketsElevation"
    /\ terrain.present /\ terrain.exaggeration = 2
    /\ BackingDEMTile(terrain) # "undefined"
    /\ glLog # <<>> /\ glLog[Len(glLog)].op = "upload"
    /\ LET instances == buckets[lastOp.bucket].instancesPerModel[1]
       IN  /\ instances.length = MaxInstances
           /\ \A k \in 0..(instances.length - 1) :
                 /\ instances.float32[k * 16 + 2] < 0
                 /\ instances.float32[k * 16 + 7] # instances.instancesEvaluatedElevation[k + 1]

-----------------------------------------------------------------------------
(* Claims about the cascades of an enabled renderer, checked under SpecShadow *)

\* C25 (as claimed): in every state reached by updateShadowParameters, the
\* enabled setter, drawShadowPass and destroy, an enabled renderer holds
\* exactly cascadeCount cascades, and no operation has indexed a cascade that
\* is missing or destroyed.
C25_EnabledHasCascades ==
    /\ _enabled => Len(_cascades) = cascadeCount
    /\ thrown # "TypeError"

-----------------------------------------------------------------------------
(* Claims about the shadow pass matrices and the projections, checked under
   SpecCalls *)

\* C26 (as claimed): calculateShadowPassMatrixFromMatrix leaves its matrix
\* argument as it was, and a second call with the same matrix object and the
\* same cascades returns what the first call returned, lightMatrix * matrix.
C26_ArgumentUnchanged ==
    (lastOp.name = "calculateShadowPassMatrixFromMatrix" /\ thrown = "none") =>
        /\ lastOp.matrix = lastOp.argument
        /\ (lastOp.held /\ lastOp.previous.thrown = "none") =>
               lastOp.result = lastOp.previous.result

\* what of a projection the callers of getProjection see
ProjectionSeen(projection) ==
    [project |-> projection.project, unproject |-> projection.unproject,
     parallels |-> projection.parallels, wrap |-> projection.wrap,
     supportsWorldCopies |-> projection.supportsWorldCopies]

\* C27 (as claimed): the projection getProjection returns for a config is the
\* one it returns for that config as the first call after the module is
\* loaded, whatever configs were passed before; an unknown name throws
\* 'Invalid projection name'.
C27_HistoryIndependent ==
    lastOp.name = "getProjection" =>
        IF lastOp.config.name \in DOMAIN ProjectionTable
        THEN /\ thrown = "none"
             /\ ProjectionSeen(lastOp.result) =
                    ProjectionSeen(extendProjection(ProjectionTable,
                                       ProjectionTable[lastOp.config.name],
                                       lastOp.config))
        ELSE thrown = "Invalid projection name"

\* an unknown name throws, whatever was asked before
C27_UnknownNameThrows ==
    (lastOp.name = "getProjection" /\ lastOp.config.name \notin DOMAIN ProjectionTable)
        => thrown = "Invalid projection name" /\ lastOp.result = NotRead

\* C27 witness: an unknown name asked for after an earlier call has extended
\* an object of the table
C27_Witness ==
    /\ lastOp.name = "getProjection"
    /\ lastOp.config.name \notin DOMAIN ProjectionTable
    /\ thrown = "Invalid projection name"
    /\ projections # ProjectionTable

====
